---- MODULE Spec2Model ----
(***************************************************************************)
(* The batched ETL pipeline of pdfParserProject: the PDFExtractor's page   *)
(* loop, the driver's page callback and buffer (ETLPipeline.run), the      *)
(* Loader (initialize / loadBatch / finalize) and the Database             *)
(* (insertDocument / insertPageContentBatch) over one SQLite connection.   *)
(*                                                                         *)
(* Every step is one resumption of the single JavaScript thread: the code  *)
(* that runs from the completion of one awaited operation to the next      *)
(* await.  A storage statement and an extraction call may succeed or fail. *)
(***************************************************************************)
EXTENDS Naturals, Sequences, FiniteSets

\* ------------------------------------------------------------------ bounds
\* Longest document of a run (the spec's batching example has 23 pages).
MaxPages == 23
\* Batch sizes 1..MaxSmallBatch are explored beside the driver's BATCH_SIZE.
MaxSmallBatch == 2
\* LoaderSpec: the number of Loader calls a caller makes, and the longest
\* batch it passes.
MaxCalls == 3
MaxClientLen == 2
\* TransformSpec: the most lines drawn from a dictionary into a page text, and
\* the most filler lines put in front of them (the Transformer looks for the
\* section number in the first ten lines that are not blank).
MaxLines == 3
MaxFill == 10
\* PuritySpec: the number of pages one Transformer is given, one after the other.
MaxTransforms == 3

\* --------------------------------------------------------------- constants
\* const BATCH_SIZE = 10 in ETLPipeline.run
BATCH_SIZE == 10
\* Loader.documentId before initialize: undefined, which `!this.documentId`
\* treats like 0; AUTOINCREMENT ids start at 1.
NoDocument == 0

BatchSizes == (1..MaxSmallBatch) \cup {BATCH_SIZE}

VARIABLES
  \* the document and the driver's configuration
  numPages,       \* pdfDocument.numPages
  batchSize,      \* the batch size the driver runs with
  \* ETLPipeline.run
  run_pc,         \* "start","extract","finalFlush","finalize","queries","success","failed"; "client" in LoaderSpec
  batch,          \* let batch: TransformedPage[]
  failure,        \* the error thrown towards run's catch ("none" while none was)
  \* PDFExtractor.extract
  ext_pc,         \* "idle","open","getPage","callback","caught","returned","threw"
  pageNum,        \* the loop variable
  \* the page callback passed to extract
  cb_pc,          \* "idle","start","awaitInit","transform","awaitLoad","resolved","rejected"
  cb_page,        \* pageData of the running callback
  \* Loader
  documentId,     \* Loader.documentId (NoDocument = undefined)
  insertedCount,  \* Loader.insertedCount
  ld_pc,          \* the Loader/Database call in flight: "idle","insertDocument","begin","prepare","insert","stmtFinalize","commit","rollback","settled"
  ld_pages,       \* loadBatch's argument `pages`
  ld_rows,        \* pageContents, mapped from pages when loadBatch was called
  ld_idx,         \* position of the for-of loop over pages in insertPageContentBatch
  ld_result,      \* "pending","ok", or the error the call rejected with
  \* the SQLite database behind Database.db
  documents,      \* committed rows of table documents
  page_content,   \* committed rows of table page_content
  txOpen,         \* a transaction is open on the connection
  txRows,         \* rows inserted in the open transaction, not yet committed
  \* history
  loaderCalls,    \* every call made to the Loader, in order
  sqlLog,         \* every statement the Database's insert methods sent, with its outcome
  reportedTotal,  \* the totals finalize has logged, in order
  ld_before       \* the rows observable when the last loadBatch was called

driverVars == <<numPages, batchSize, run_pc, batch, failure>>
extractorVars == <<ext_pc, pageNum>>
callbackVars == <<cb_pc, cb_page>>
loaderVars == <<documentId, insertedCount>>
callVars == <<ld_pc, ld_pages, ld_rows, ld_idx, ld_result>>
storageVars == <<documents, page_content, txOpen, txRows>>
histVars == <<loaderCalls, sqlLog, reportedTotal, ld_before>>
vars == <<driverVars, extractorVars, callbackVars, loaderVars, callVars, storageVars, histVars>>

\* ----------------------------------------------------------------- helpers
\* The rows a query on the connection observes: committed rows, then the rows
\* of the connection's own open transaction.
VisibleRows == page_content \o txRows

PageNumbers(pages) == [i \in 1..Len(pages) |-> pages[i].pageNumber]
RowNumbers(rows) == [i \in 1..Len(rows) |-> rows[i].page_number]

\* ============================================================ text and RegExp
\* A string is a sequence of one-character strings.
LowerChars == <<"a", "b", "c", "d", "e", "f", "g", "h", "i", "j", "k", "l", "m", "n", "o", "p", "q", "r", "s", "t", "u", "v", "w", "x", "y", "z">>
UpperChars == <<"A", "B", "C", "D", "E", "F", "G", "H", "I", "J", "K", "L", "M", "N", "O", "P", "Q", "R", "S", "T", "U", "V", "W", "X", "Y", "Z">>
LowerSet == {LowerChars[i] : i \in 1..26}
UpperSet == {UpperChars[i] : i \in 1..26}
DigitSet == {"0", "1", "2", "3", "4", "5", "6", "7", "8", "9"}
\* \w and \s of a RegExp, and what String.trim strips
WordSet == LowerSet \cup UpperSet \cup DigitSet \cup {"_"}
SpaceSet == {" ", "\t", "\n", "\r", "\f"}

UpperOf == [c \in LowerSet |-> UpperChars[CHOOSE i \in 1..26 : LowerChars[i] = c]]
LowerOf == [c \in UpperSet |-> LowerChars[CHOOSE i \in 1..26 : UpperChars[i] = c]]
toUpperChar(c) == IF c \in LowerSet THEN UpperOf[c] ELSE c
toLowerChar(c) == IF c \in UpperSet THEN LowerOf[c] ELSE c
\* String.toUpperCase, String.toLowerCase
toUpperCase(s) == [i \in 1..Len(s) |-> toUpperChar(s[i])]
toLowerCase(s) == [i \in 1..Len(s) |-> toLowerChar(s[i])]

MinOf(S) == CHOOSE x \in S : \A y \in S : x <= y
MaxOf(S) == CHOOSE x \in S : \A y \in S : x >= y

\* String.trim
trim(s) ==
  LET keep == {i \in 1..Len(s) : s[i] \notin SpaceSet}
  IN IF keep = {} THEN <<>> ELSE SubSeq(s, MinOf(keep), MaxOf(keep))

\* String.split("\n")
RECURSIVE splitLines(_)
splitLines(s) ==
  LET nl == {i \in 1..Len(s) : s[i] = "\n"}
  IN IF nl = {} THEN <<s>>
     ELSE <<SubSeq(s, 1, MinOf(nl) - 1)>> \o splitLines(SubSeq(s, MinOf(nl) + 1, Len(s)))

\* Array.join("\n")
RECURSIVE joinLines(_)
joinLines(lines) ==
  IF Len(lines) = 0 THEN <<>>
  ELSE IF Len(lines) = 1 THEN lines[1]
  ELSE lines[1] \o <<"\n">> \o joinLines(Tail(lines))

\* [...new Set(a)] and Array.from(set): the distinct elements, each at the
\* place of its first occurrence.
KeepDuplicates(a) == a
UniqueInOrder(a) ==
  LET first == {i \in 1..Len(a) : \A j \in 1..(i - 1) : a[j] # a[i]}
      F[i \in 0..Len(a)] ==
        IF i = 0 THEN <<>> ELSE IF i \in first THEN Append(F[i - 1], a[i]) ELSE F[i - 1]
  IN F[Len(a)]

\* The RegExp syntax the Transformer uses.
RLit(c) == [t |-> "lit", c |-> c]
RSet(S) == [t |-> "set", s |-> S]
RAny == [t |-> "any"]
RBol == [t |-> "bol"]
REol == [t |-> "eol"]
RWordB == [t |-> "wordb"]
RCat(rs) == [t |-> "cat", rs |-> rs]
RAlt(rs) == [t |-> "alt", rs |-> rs]
RStar(r) == [t |-> "star", r |-> r]
RPlus(r) == [t |-> "plus", r |-> r]
ROpt(r) == [t |-> "opt", r |-> r]
RStr(w) == [t |-> "str", w |-> w]
RDigit == RSet(DigitSet)
RSpace == RSet(SpaceSet)
RWord == RSet(WordSet)

\* Ends(re, s, i, ci): the positions at which a match of re that starts at
\* position i of s can end (ci: the i flag).  ^ and $ are those of a RegExp
\* without the m flag; "." matches no line terminator.
RECURSIVE Ends(_, _, _, _)
RECURSIVE EndsCat(_, _, _, _, _)
EndsCat(rs, k, s, from, ci) ==
  IF k > Len(rs) \/ from = {} THEN from
  ELSE EndsCat(rs, k + 1, s, UNION {Ends(rs[k], s, i, ci) : i \in from}, ci)
Ends(re, s, i, ci) ==
  CASE re.t = "lit" ->
         IF i <= Len(s) /\ (s[i] = re.c \/ (ci /\ toLowerChar(s[i]) = toLowerChar(re.c)))
         THEN {i + 1} ELSE {}
    [] re.t = "str" ->
         IF /\ i + Len(re.w) <= Len(s) + 1
            /\ \A k \in 1..Len(re.w) :
                 \/ s[i + k - 1] = re.w[k]
                 \/ (ci /\ toLowerChar(s[i + k - 1]) = toLowerChar(re.w[k]))
         THEN {i + Len(re.w)} ELSE {}
    [] re.t = "set" ->
         IF i <= Len(s) /\ (s[i] \in re.s \/ (ci /\ (toLowerChar(s[i]) \in re.s \/ toUpperChar(s[i]) \in re.s)))
         THEN {i + 1} ELSE {}
    [] re.t = "any" -> IF i <= Len(s) /\ s[i] \notin {"\n", "\r"} THEN {i + 1} ELSE {}
    [] re.t = "bol" -> IF i = 1 THEN {i} ELSE {}
    [] re.t = "eol" -> IF i = Len(s) + 1 THEN {i} ELSE {}
    [] re.t = "wordb" ->
         IF (i > 1 /\ s[i - 1] \in WordSet) # (i <= Len(s) /\ s[i] \in WordSet)
         THEN {i} ELSE {}
    [] re.t = "cat" -> EndsCat(re.rs, 1, s, {i}, ci)
    [] re.t = "alt" -> UNION {Ends(re.rs[k], s, i, ci) : k \in 1..Len(re.rs)}
    [] re.t = "opt" -> {i} \cup Ends(re.r, s, i, ci)
    [] re.t = "star" ->
         {i} \cup UNION {Ends(re, s, j, ci) : j \in (Ends(re.r, s, i, ci) \ {i})}
    [] re.t = "plus" ->
         UNION {Ends(RStar(re.r), s, j, ci) : j \in Ends(re.r, s, i, ci)}

\* RegExp.test(s): a match starts somewhere.
RegExpTest(rx, s) == \E i \in 1..(Len(s) + 1) : Ends(rx.re, s, i, rx.ci) # {}

\* (s.match(rx) || []).length for a RegExp with the g flag: the matches are
\* taken left to right, each search starting where the last match ended.
\* (The patterns counted are literal words, which can end in one place only.)
RECURSIVE MatchCountFrom(_, _, _)
MatchCountFrom(rx, s, i) ==
  LET starts == {k \in i..(Len(s) + 1) : Ends(rx.re, s, k, rx.ci) # {}}
  IN IF starts = {} THEN 0
     ELSE LET k == MinOf(starts)
              e == MaxOf(Ends(rx.re, s, k, rx.ci))
          IN 1 + MatchCountFrom(rx, s, IF e = k THEN k + 1 ELSE e)
MatchFirstOnly(rx, s) == IF RegExpTest(rx, s) THEN 1 ELSE 0
MatchCount(rx, s) == MatchCountFrom(rx, s, 1)

\* /\bword\b/ with the given flag
WordRegExp(w, ci) == [re |-> RCat(<<RWordB, RStr(w), RWordB>>), ci |-> ci]

\* ================================================================ Transformer
\* Transformer.accessibilityKeywords
accessibilityKeywords == <<
  <<"a", "c", "c", "e", "s", "s", "i", "b", "l", "e">>,
  <<"a", "c", "c", "e", "s", "s", "i", "b", "i", "l", "i", "t", "y">>,
  <<"A", "D", "A">>,
  <<"d", "i", "s", "a", "b", "l", "e", "d">>,
  <<"w", "h", "e", "e", "l", "c", "h", "a", "i", "r">>,
  <<"r", "a", "m", "p">>,
  <<"h", "a", "n", "d", "r", "a", "i", "l">>,
  <<"b", "r", "a", "i", "l", "l", "e">>,
  <<"v", "i", "s", "u", "a", "l">>,
  <<"h", "e", "a", "r", "i", "n", "g">>,
  <<"m", "o", "b", "i", "l", "i", "t", "y">>,
  <<"c", "l", "e", "a", "r", "a", "n", "c", "e">>,
  <<"w", "i", "d", "t", "h">>,
  <<"s", "l", "o", "p", "e">>,
  <<"e", "l", "e", "v", "a", "t", "o", "r">>,
  <<"s", "i", "g", "n", "a", "g", "e">>,
  <<"c", "o", "m", "p", "l", "i", "a", "n", "c", "e">>,
  <<"b", "a", "r", "r", "i", "e", "r", "-", "f", "r", "e", "e">>,
  <<"u", "n", "i", "v", "e", "r", "s", "a", "l", " ", "d", "e", "s", "i", "g", "n">> >>

\* /\bTABLE\b/
tablePattern == WordRegExp(<<"T", "A", "B", "L", "E">>, FALSE)

\* /\d+\.\d+/, the last of excludePatterns
sectionCodeAtStartPattern ==
  [re |-> RCat(<<RBol, RPlus(RDigit), RLit("."), RPlus(RDigit)>>), ci |-> FALSE]
sectionCodePattern == [re |-> RCat(<<RPlus(RDigit), RLit("."), RPlus(RDigit)>>), ci |-> FALSE]

RDigitOrDot == RSet(DigitSet \cup {"."})
\* excludePatterns of extractSectionHeadings, in the code's order
excludePatternsButLast == <<
  [re |-> RCat(<<RBol, RStr(<<"F", "I", "G", "U", "R", "E">>), RPlus(RSpace), RPlus(RDigitOrDot)>>), ci |-> TRUE],
  [re |-> RCat(<<RBol, RStr(<<"T", "A", "B", "L", "E">>), RPlus(RSpace), RPlus(RDigitOrDot)>>), ci |-> TRUE],
  [re |-> RCat(<<RBol, RStr(<<"F", "i", "g">>), RLit("."), RStar(RSpace), RPlus(RDigitOrDot)>>), ci |-> TRUE],
  [re |-> RCat(<<RBol, RStr(<<"D", "i", "a", "g", "r", "a", "m">>), RPlus(RSpace), RPlus(RDigitOrDot)>>), ci |-> TRUE],
  [re |-> RCat(<<RBol, RStr(<<"I", "l", "l", "u", "s", "t", "r", "a", "t", "i", "o", "n">>), RPlus(RSpace), RPlus(RDigitOrDot)>>), ci |-> TRUE],
  [re |-> RCat(<<RBol, RPlus(RDigit), REol>>), ci |-> FALSE],
  [re |-> RCat(<<RBol, RStr(<<"p", "a", "g", "e">>), RPlus(RSpace), RPlus(RDigit)>>), ci |-> TRUE],
  [re |-> RCat(<<RBol, RStr(<<"s", "e", "e">>), RPlus(RSpace),
                 RAlt(<<RStr(<<"f", "i", "g", "u", "r", "e">>), RStr(<<"t", "a", "b", "l", "e">>), RStr(<<"s", "e", "c", "t", "i", "o", "n">>)>>)>>), ci |-> TRUE],
  [re |-> RCat(<<RBol, RStr(<<"n", "o", "t", "e", ":">>)>>), ci |-> TRUE],
  [re |-> RCat(<<RBol, RStr(<<"e", "x", "a", "m", "p", "l", "e", ":">>)>>), ci |-> TRUE],
  [re |-> RCat(<<RBol, RLit("("), RPlus(RWord), RLit(")"), REol>>), ci |-> FALSE],
  [re |-> RCat(<<RBol, RStr(<<"E", "X", "C", "E", "P", "T", "I", "O", "N">>), ROpt(RLit("S")), ROpt(RLit(":")), REol>>), ci |-> TRUE] >>
excludePatterns == Append(excludePatternsButLast, sectionCodePattern)

\* excludePatterns.some((p) => p.test(trimmedLine))
Excluded(trimmedLine) ==
  \E k \in 1..Len(excludePatterns) : RegExpTest(excludePatterns[k], trimmedLine)

\* /[A-Z]/
upperLetterPattern == [re |-> RSet(UpperSet), ci |-> FALSE]

\* if (hasTable) break;
BreakNever(hasTable) == FALSE
BreakAfterHeading(hasTable) == hasTable

\* trimmedLine.length < 3
TooShortAtThree(trimmedLine) == Len(trimmedLine) <= 3
TooShort(trimmedLine) == Len(trimmedLine) < 3

\* The for loop of extractSectionHeadings from line i on, headings so far acc.
RECURSIVE headingsFrom(_, _, _, _)
headingsFrom(lines, i, hasTable, acc) ==
  IF i > Len(lines) THEN acc
  ELSE LET trimmedLine == trim(lines[i])
       IN IF TooShort(trimmedLine) \/ Excluded(trimmedLine)
          THEN headingsFrom(lines, i + 1, hasTable, acc)
          ELSE IF trimmedLine = toUpperCase(trimmedLine) /\ RegExpTest(upperLetterPattern, trimmedLine)
          THEN IF BreakAfterHeading(hasTable)
               THEN Append(acc, trimmedLine)
               ELSE headingsFrom(lines, i + 1, hasTable, Append(acc, trimmedLine))
          ELSE headingsFrom(lines, i + 1, hasTable, acc)

\* Transformer.extractSectionHeadings
extractSectionHeadings(text) ==
  UniqueInOrder(headingsFrom(splitLines(text), 1, RegExpTest(tablePattern, text), <<>>))

\* const foundKeywords = new Set<string>(): a set of its own for every call
\* (one kept by the Transformer would still hold what the call before found).
FoundKeywordsKept == IF Len(batch) = 0 THEN <<>> ELSE batch[Len(batch)].keywords
NewFoundKeywords == <<>>

\* new RegExp(`\\b${keyword.toLowerCase()}\\b`, "gi")
keywordRegExpAsWritten(keyword) == WordRegExp(keyword, FALSE)
keywordRegExp(keyword) == WordRegExp(toLowerCase(keyword), TRUE)

\* Transformer.extractAccessibilityKeywords
extractAccessibilityKeywords(text) ==
  LET lowerText == toLowerCase(text)
  IN UniqueInOrder(NewFoundKeywords \o SelectSeq(accessibilityKeywords,
       LAMBDA keyword : RegExpTest(keywordRegExp(keyword), lowerText)))

\* const keywordCount = keywords.length
KeywordOccurrences(keywords, text) ==
  LET n[i \in 0..Len(keywords)] ==
        IF i = 0 THEN 0 ELSE n[i - 1] + MatchCount(WordRegExp(keywords[i], TRUE), text)
  IN n[Len(keywords)]
KeywordCount(keywords, text) == Len(keywords)

\* Math.min(10, lines.length)
ScanLimit == 10
SectionScanAll(n) == n
SectionScanEnd(n) == IF n < ScanLimit THEN n ELSE ScanLimit

\* /^(\d+(?:\.\d+)+)\s+[A-Za-z]/: the group, and what must follow it
sectionNumberGroup == RCat(<<RPlus(RDigit), RPlus(RCat(<<RLit("."), RPlus(RDigit)>>))>>)
sectionNumberRest == RCat(<<RPlus(RSpace), RSet(LowerSet \cup UpperSet)>>)

\* line.match(...): the ends of group 1 in the matches that start the line
\* (the group holds digits and dots and is followed by white space, so there
\* is at most one).
SectionNumberEnds(line) ==
  {e \in Ends(sectionNumberGroup, line, 1, FALSE) : Ends(sectionNumberRest, line, e, FALSE) # {}}

\* Transformer.extractSectionNumber; <<>> is undefined, <<n>> the number n.
extractSectionNumber(text) ==
  LET lines == SelectSeq(splitLines(text), LAMBDA line : Len(trim(line)) > 0)
      hits == {i \in 1..SectionScanEnd(Len(lines)) : SectionNumberEnds(trim(lines[i])) # {}}
  IN IF hits = {} THEN <<>>
     ELSE LET line == trim(lines[MinOf(hits)])
          IN <<SubSeq(line, 1, MaxOf(SectionNumberEnds(line)) - 1)>>

\* Transformer.detectFigure
figurePatterns == <<
  [re |-> RCat(<<RStr(<<"F", "I", "G", "U", "R", "E">>), RPlus(RSpace), RPlus(RDigit)>>), ci |-> TRUE],
  [re |-> RCat(<<RStr(<<"F", "i", "g">>), RLit("."), RStar(RSpace), RPlus(RDigit)>>), ci |-> TRUE],
  [re |-> RCat(<<RStr(<<"s", "e", "e">>), RPlus(RSpace), RStr(<<"f", "i", "g", "u", "r", "e">>)>>), ci |-> TRUE],
  [re |-> RCat(<<RStr(<<"s", "h", "o", "w", "n">>), RPlus(RSpace), RStr(<<"i", "n">>), RPlus(RSpace), RStr(<<"f", "i", "g", "u", "r", "e">>)>>), ci |-> TRUE],
  [re |-> RCat(<<RStr(<<"d", "i", "a", "g", "r", "a", "m">>), RPlus(RSpace), RPlus(RDigit)>>), ci |-> TRUE],
  [re |-> RStr(<<"i", "l", "l", "u", "s", "t", "r", "a", "t", "i", "o", "n">>), ci |-> TRUE] >>
detectFigure(text) == \E k \in 1..Len(figurePatterns) : RegExpTest(figurePatterns[k], text)

\* sum over the patterns of (text.match(pattern) || []).length
SumMatches(patterns, text) ==
  LET n[i \in 0..Len(patterns)] ==
        IF i = 0 THEN 0 ELSE n[i - 1] + MatchCount(patterns[i], text)
  IN n[Len(patterns)]

\* Transformer.countMandatoryLanguage
mandatoryPatterns == <<
  WordRegExp(<<"s", "h", "a", "l", "l">>, TRUE), WordRegExp(<<"m", "u", "s", "t">>, TRUE),
  WordRegExp(<<"r", "e", "q", "u", "i", "r", "e", "d">>, TRUE), WordRegExp(<<"m", "a", "n", "d", "a", "t", "o", "r", "y">>, TRUE) >>
countMandatoryLanguage(text) == SumMatches(mandatoryPatterns, text)

\* Transformer.countExceptionLanguage
exceptionPatterns == <<
  WordRegExp(<<"e", "x", "c", "e", "p", "t", "i", "o", "n">>, TRUE), WordRegExp(<<"p", "e", "r", "m", "i", "t", "t", "e", "d">>, TRUE),
  WordRegExp(<<"a", "l", "l", "o", "w", "e", "d">>, TRUE), WordRegExp(<<"n", "o", "t", " ", "r", "e", "q", "u", "i", "r", "e", "d">>, TRUE) >>
countExceptionLanguage(text) == SumMatches(exceptionPatterns, text)

\* The tags of contentType.
Requirement == <<"r", "e", "q", "u", "i", "r", "e", "m", "e", "n", "t">>
Exception == <<"e", "x", "c", "e", "p", "t", "i", "o", "n">>
Definition == <<"d", "e", "f", "i", "n", "i", "t", "i", "o", "n">>
Normal == <<"n", "o", "r", "m", "a", "l">>

\* /\bdefinitions?\b/i, /\bmeans\b.*following/i, /^[A-Z][A-Za-z\s]+\.\s+/
definitionsPattern ==
  [re |-> RCat(<<RWordB, RStr(<<"d", "e", "f", "i", "n", "i", "t", "i", "o", "n">>), ROpt(RLit("s")), RWordB>>), ci |-> TRUE]
meansFollowingPattern ==
  [re |-> RCat(<<RWordB, RStr(<<"m", "e", "a", "n", "s">>), RWordB, RStar(RAny), RStr(<<"f", "o", "l", "l", "o", "w", "i", "n", "g">>)>>), ci |-> TRUE]
termLinePattern ==
  [re |-> RCat(<<RBol, RSet(UpperSet), RPlus(RSet(LowerSet \cup UpperSet \cup SpaceSet)),
                 RLit("."), RPlus(RSpace)>>), ci |-> FALSE]

\* if (exceptionLanguageCount >= 2), if (mandatoryLanguageCount >= 2)
ExceptionAppliesMoreThanTwice(count) == count > 2
ExceptionApplies(count) == count >= 2
RequirementApplies(count) == count >= 2

\* if (types.length === 0) types.push("normal")
NormalFallbackAlways(types) == Append(types, Normal)
NormalFallbackNever(types) == types
NormalFallback(types) == IF Len(types) = 0 THEN Append(types, Normal) ELSE types

\* Transformer.classifyContentType
classifyContentType(text, mandatoryLanguageCount, exceptionLanguageCount) ==
  LET termLines == SelectSeq(splitLines(text), LAMBDA line : RegExpTest(termLinePattern, line))
      t1 == IF \/ RegExpTest(definitionsPattern, text)
               \/ RegExpTest(meansFollowingPattern, text)
               \/ Len(termLines) > 3
            THEN <<Definition>> ELSE <<>>
      t2 == IF ExceptionApplies(exceptionLanguageCount) THEN Append(t1, Exception) ELSE t1
      t3 == IF RequirementApplies(mandatoryLanguageCount) THEN Append(t2, Requirement) ELSE t2
  IN NormalFallback(t3)

\* Transformer.transformPage
transformPage(page) ==
  LET sectionHeadings == extractSectionHeadings(page.text)
      sectionNumber == extractSectionNumber(page.text)
      keywords == extractAccessibilityKeywords(page.text)
      keywordCount == KeywordCount(keywords, page.text)
      hasFigure == detectFigure(page.text)
      mandatoryLanguageCount == countMandatoryLanguage(page.text)
      exceptionLanguageCount == countExceptionLanguage(page.text)
      contentType == classifyContentType(page.text, mandatoryLanguageCount, exceptionLanguageCount)
  IN [pageNumber |-> page.pageNumber,
      rawText |-> page.text,
      sectionHeadings |-> sectionHeadings,
      sectionNumber |-> sectionNumber,
      contentType |-> contentType,
      keywordCount |-> keywordCount,
      keywords |-> keywords,
      hasFigure |-> hasFigure,
      mandatoryLanguageCount |-> mandatoryLanguageCount,
      exceptionLanguageCount |-> exceptionLanguageCount]

\* JSON.stringify of a string
JSONQuote(s) ==
  LET esc(c) == CASE c = "\"" -> <<"\\", "\"">>
                  [] c = "\\" -> <<"\\", "\\">>
                  [] c = "\n" -> <<"\\", "n">>
                  [] c = "\t" -> <<"\\", "t">>
                  [] c = "\r" -> <<"\\", "r">>
                  [] c = "\f" -> <<"\\", "f">>
                  [] OTHER -> <<c>>
      F[i \in 0..Len(s)] == IF i = 0 THEN <<"\"">> ELSE F[i - 1] \o esc(s[i])
  IN Append(F[Len(s)], "\"")

\* JSON.stringify of an array of strings
JSONStringify(a) ==
  LET F[i \in 0..Len(a)] ==
        IF i = 0 THEN <<"[">>
        ELSE (IF i = 1 THEN F[0] ELSE Append(F[i - 1], ",")) \o JSONQuote(a[i])
  IN Append(F[Len(a)], "]")

\* JSON.parse of the text of an array of strings: a scan from position i,
\* acc the strings read, cur the string being read (inStr).
RECURSIVE parseFrom(_, _, _, _, _)
parseFrom(j, i, acc, cur, inStr) ==
  IF i > Len(j) THEN acc
  ELSE IF ~inStr
  THEN parseFrom(j, i + 1, acc, <<>>, j[i] = "\"")
  ELSE IF j[i] = "\"" THEN parseFrom(j, i + 1, Append(acc, cur), <<>>, FALSE)
  ELSE IF j[i] = "\\"
  THEN LET c == CASE j[i + 1] = "n" -> "\n"
                  [] j[i + 1] = "t" -> "\t"
                  [] j[i + 1] = "r" -> "\r"
                  [] j[i + 1] = "f" -> "\f"
                  [] OTHER -> j[i + 1]
       IN parseFrom(j, i + 2, acc, Append(cur, c), TRUE)
  ELSE parseFrom(j, i + 1, acc, Append(cur, j[i]), TRUE)
JSONParse(j) == parseFrom(j, 1, <<>>, <<>>, FALSE)

\* pages.map(...) in Loader.loadBatch
PageContents(docId, pages) ==
  [i \in 1..Len(pages) |->
     LET page == pages[i]
     IN [document_id |-> docId,
         page_number |-> page.pageNumber,
         raw_text |-> page.rawText,
         section_headings |-> JSONStringify(page.sectionHeadings),
         section_number |-> page.sectionNumber,
         content_type |-> JSONStringify(page.contentType),
         keyword_count |-> page.keywordCount,
         keywords |-> JSONStringify(page.keywords),
         has_figure |-> page.hasFigure,
         mandatory_language_count |-> page.mandatoryLanguageCount,
         exception_language_count |-> page.exceptionLanguageCount]]

\* The parameters stmt.run binds for one page: section_number || null and
\* has_figure ? 1 : 0 (<<>> is NULL in a row; the empty string is falsy).
StoredRow(pageData) ==
  [pageData EXCEPT
     !.section_number = IF pageData.section_number \in {<<>>, << <<>> >>}
                        THEN <<>> ELSE pageData.section_number,
     !.has_figure = IF pageData.has_figure THEN 1 ELSE 0]

\* The text extracted from page p of the document the pipeline runs on: the
\* pages of the document repeat these texts.
DocumentTexts == <<
  <<"R", "A", "M", "P", "S", "\n", "4", ".", "1", " ", "R", "a", "m", "p", " ", "s", "h", "a", "l", "l">>,
  <<"s", "e", "e", " ", "F", "i", "g", "u", "r", "e", " ", "4">>,
  <<>>,
  <<"T", "A", "B", "L", "E", " ", "1", "\n", "D", "O", "O", "R", "S">> >>
PageText(p) == DocumentTexts[(p % Len(DocumentTexts)) + 1]

\* The two early exits of Loader.loadBatch, in the code's order.
LoadBatchEntryEmptyFirst(docId, pages) ==
  IF Len(pages) = 0 THEN "empty"
  ELSE IF docId = NoDocument THEN "NotInitialized"
  ELSE "insert"
LoadBatchEntry(docId, pages) ==
  IF docId = NoDocument THEN "NotInitialized"
  ELSE IF Len(pages) = 0 THEN "empty"
  ELSE "insert"

\* if (batch.length >= BATCH_SIZE)
BatchIsFullStrict(b, size) == Len(b) > size
BatchIsFull(b, size) == Len(b) >= size

\* batch = [] after the awaited loadBatch
BatchAfterFlushKept(b) == b
BatchAfterFlush(b) == <<>>

\* if (batch.length > 0) before the final loadBatch
HasRemainingAlways(b) == TRUE
HasRemainingSeveral(b) == Len(b) > 1
HasRemaining(b) == Len(b) > 0

\* `await onPageExtracted(...)`: the loop resumes when the callback has settled.
AwaitResumesAtOnce(cb) == TRUE
AwaitResumes(cb) == cb \in {"resolved", "rejected"}

\* The inner catch of insertPageContentBatch issues ROLLBACK before rethrowing.
InnerCatchNoRollback == "settled"
InnerCatch == "rollback"

\* this.insertedCount += pages.length
CountAfterLoadOne(count, pages) == count + 1
CountAfterLoad(count, pages) == count + Len(pages)

\* catch (error) { console.error(...); throw error; } in Loader.loadBatch:
\* the caller gets the error insertPageContentBatch threw.
LoadBatchCatchSwallow(err) == "ok"
LoadBatchCatch(err) == err

\* catch (error) { console.error(...); throw error; } in PDFExtractor.extract
ExtractorCatchSwallow == "returned"
ExtractorCatch == "threw"

\* if (pageData.pageNumber === 1)
IsFirstPageAlways(pageData) == TRUE
IsFirstPageZeroBased(pageData) == pageData.pageNumber = 0
IsFirstPage(pageData) == pageData.pageNumber = 1

\* batch.push(transformedPage)
BatchPushFront(b, page) == <<page>> \o b
BatchPush(b, page) == Append(b, page)

Log(stmt, ok) == Append(sqlLog, [stmt |-> stmt, ok |-> ok])

\* ----------------------------------------------------- calls to the Loader
\* loader.loadBatch(pages) up to its first await.
CallLoadBatch(pages) ==
  LET e == LoadBatchEntry(documentId, pages) IN
  /\ loaderCalls' = Append(loaderCalls, [op |-> "loadBatch", pages |-> PageNumbers(pages)])
  /\ ld_before' = VisibleRows
  /\ ld_pc' = IF e = "insert" THEN "begin" ELSE "settled"
  /\ ld_result' = IF e = "insert" THEN "pending"
                  ELSE IF e = "empty" THEN "ok" ELSE "NotInitialized"
  /\ ld_pages' = pages
  /\ ld_rows' = IF e = "insert" THEN PageContents(documentId, pages) ELSE <<>>
  /\ ld_idx' = 1
  /\ UNCHANGED <<loaderVars, storageVars, sqlLog, reportedTotal>>

\* loader.initialize(metadata) up to its first await.
CallInitialize ==
  /\ loaderCalls' = Append(loaderCalls, [op |-> "initialize", pages |-> <<>>])
  /\ ld_pc' = "insertDocument"
  /\ ld_result' = "pending"
  /\ ld_pages' = <<>>
  /\ ld_rows' = <<>>
  /\ ld_idx' = 1
  /\ UNCHANGED <<loaderVars, storageVars, sqlLog, reportedTotal, ld_before>>

\* loader.finalize(): logs insertedCount, changes nothing.
CallFinalize ==
  /\ loaderCalls' = Append(loaderCalls, [op |-> "finalize", pages |-> <<>>])
  /\ reportedTotal' = Append(reportedTotal, insertedCount)
  /\ UNCHANGED <<loaderVars, callVars, storageVars, sqlLog, ld_before>>

\* The awaiting caller takes the settled call's outcome.
TakeResult ==
  /\ ld_pc = "settled"
  /\ ld_pc' = "idle"
  /\ UNCHANGED <<ld_pages, ld_rows, ld_idx, ld_result>>

\* ------------------------------------------------- Loader and Database steps
\* Database.insertDocument inside Loader.initialize
InsertDocument ==
  /\ ld_pc = "insertDocument"
  /\ \E ok \in BOOLEAN :
       /\ sqlLog' = Log("INSERT_DOCUMENT", ok)
       /\ IF ok
          THEN /\ documents' = Append(documents, [id |-> Len(documents) + 1, total_pages |-> numPages])
               /\ documentId' = Len(documents) + 1
               /\ insertedCount' = 0
               /\ ld_result' = "ok"
          ELSE /\ ld_result' = "DocumentInsertionFailed"
               /\ UNCHANGED <<documents, documentId, insertedCount>>
  /\ ld_pc' = "settled"
  /\ UNCHANGED <<ld_pages, ld_rows, ld_idx, page_content, txOpen, txRows>>
  /\ UNCHANGED <<driverVars, extractorVars, callbackVars>>
  /\ UNCHANGED <<loaderCalls, reportedTotal, ld_before>>

\* Where a throw of BEGIN TRANSACTION goes: the outer catch, which wraps the
\* error and sends no statement.
OuterCatchRollback == "rollback"
OuterCatch == "settled"

\* await this.db.run("BEGIN TRANSACTION"); a failure goes to the outer catch.
Begin ==
  /\ ld_pc = "begin"
  /\ \E ok \in {b \in BOOLEAN : b => ~txOpen} :
       /\ sqlLog' = Log("BEGIN", ok)
       /\ IF ok
          THEN /\ txOpen' = TRUE
               /\ ld_pc' = "prepare"
               /\ UNCHANGED ld_result
          ELSE /\ ld_pc' = OuterCatch
               /\ ld_result' = IF OuterCatch = "settled"
                               THEN LoadBatchCatch("BatchInsertionFailed")
                               ELSE ld_result
               /\ UNCHANGED txOpen
  /\ UNCHANGED <<ld_pages, ld_rows, ld_idx, documents, page_content, txRows>>
  /\ UNCHANGED <<driverVars, extractorVars, callbackVars, loaderVars>>
  /\ UNCHANGED <<loaderCalls, reportedTotal, ld_before>>

\* What a throw inside the inner try leads to.
InnerThrow ==
  /\ ld_pc' = InnerCatch
  /\ ld_result' = IF InnerCatch = "rollback" THEN ld_result
                  ELSE LoadBatchCatch("BatchInsertionFailed")

\* const stmt = await this.db.prepare(INSERT ...)
Prepare ==
  /\ ld_pc = "prepare"
  /\ \E ok \in BOOLEAN :
       /\ sqlLog' = Log("PREPARE", ok)
       /\ IF ok
          THEN /\ ld_pc' = IF Len(ld_rows) >= 1 THEN "insert" ELSE "stmtFinalize"
               /\ UNCHANGED ld_result
          ELSE InnerThrow
  /\ UNCHANGED <<ld_pages, ld_rows, ld_idx, storageVars>>
  /\ UNCHANGED <<driverVars, extractorVars, callbackVars, loaderVars>>
  /\ UNCHANGED <<loaderCalls, reportedTotal, ld_before>>

\* await stmt.run([...]) for the next page of the batch.  A failing statement
\* may have made SQLite roll the transaction back on its own.
InsertRow ==
  /\ ld_pc = "insert"
  /\ \E ok \in BOOLEAN :
       /\ sqlLog' = Log("INSERT", ok)
       /\ IF ok
          THEN /\ txRows' = Append(txRows, StoredRow(ld_rows[ld_idx]))
               /\ ld_idx' = ld_idx + 1
               /\ ld_pc' = IF ld_idx < Len(ld_rows) THEN "insert" ELSE "stmtFinalize"
               /\ UNCHANGED <<ld_result, txOpen>>
          ELSE /\ InnerThrow
               /\ \E auto \in BOOLEAN :
                    /\ txOpen' = (txOpen /\ ~auto)
                    /\ txRows' = IF auto THEN <<>> ELSE txRows
               /\ UNCHANGED ld_idx
  /\ UNCHANGED <<ld_pages, ld_rows, documents, page_content>>
  /\ UNCHANGED <<driverVars, extractorVars, callbackVars, loaderVars>>
  /\ UNCHANGED <<loaderCalls, reportedTotal, ld_before>>

\* await stmt.finalize()
StmtFinalize ==
  /\ ld_pc = "stmtFinalize"
  /\ \E ok \in BOOLEAN :
       /\ sqlLog' = Log("FINALIZE", ok)
       /\ IF ok
          THEN /\ ld_pc' = "commit"
               /\ UNCHANGED ld_result
          ELSE InnerThrow
  /\ UNCHANGED <<ld_pages, ld_rows, ld_idx, storageVars>>
  /\ UNCHANGED <<driverVars, extractorVars, callbackVars, loaderVars>>
  /\ UNCHANGED <<loaderCalls, reportedTotal, ld_before>>

\* What COMMIT makes of the table: the transaction's rows after the rows
\* committed before.
CommitRowsOnly(rows, tx) == tx
CommitRows(rows, tx) == rows \o tx

\* await this.db.run("COMMIT"), then the rest of Loader.loadBatch:
\* this.insertedCount += pages.length.
Commit ==
  /\ ld_pc = "commit"
  /\ \E ok \in BOOLEAN :
       /\ sqlLog' = Log("COMMIT", ok)
       /\ IF ok
          THEN /\ page_content' = CommitRows(page_content, txRows)
               /\ txRows' = <<>>
               /\ txOpen' = FALSE
               /\ insertedCount' = CountAfterLoad(insertedCount, ld_pages)
               /\ ld_pc' = "settled"
               /\ ld_result' = "ok"
          ELSE /\ InnerThrow
               /\ \E auto \in BOOLEAN :
                    /\ txOpen' = (txOpen /\ ~auto)
                    /\ txRows' = IF auto THEN <<>> ELSE txRows
               /\ UNCHANGED <<page_content, insertedCount>>
  /\ UNCHANGED <<ld_pages, ld_rows, ld_idx, documents, documentId>>
  /\ UNCHANGED <<driverVars, extractorVars, callbackVars>>
  /\ UNCHANGED <<loaderCalls, reportedTotal, ld_before>>

\* await this.db.run("ROLLBACK") in the inner catch, then the rethrow that
\* the outer catch wraps.  ROLLBACK fails when no transaction is active.
Rollback ==
  /\ ld_pc = "rollback"
  /\ sqlLog' = Log("ROLLBACK", txOpen)
  /\ txRows' = <<>>
  /\ txOpen' = FALSE
  /\ ld_pc' = "settled"
  /\ ld_result' = LoadBatchCatch("BatchInsertionFailed")
  /\ UNCHANGED <<ld_pages, ld_rows, ld_idx, documents, page_content>>
  /\ UNCHANGED <<driverVars, extractorVars, callbackVars, loaderVars>>
  /\ UNCHANGED <<loaderCalls, reportedTotal, ld_before>>

\* ------------------------------------------------------ PDFExtractor.extract
\* pageNum <= pdfDocument.numPages, tested before every pass of the loop.
LoopTestAfterFirstPass(n, total) == n = 1 \/ n <= total
LoopTest(n, total) == n <= total

\* Reading the file and pdfjs's getDocument; then the loop's first test.
ExtractOpen ==
  /\ run_pc = "extract"
  /\ ext_pc = "open"
  /\ \E ok \in BOOLEAN :
       IF ok
       THEN /\ pageNum' = 1
            /\ ext_pc' = IF LoopTest(1, numPages) THEN "getPage" ELSE "returned"
            /\ UNCHANGED failure
       ELSE /\ ext_pc' = "caught"
            /\ failure' = "ExtractionError"
            /\ UNCHANGED pageNum
  /\ UNCHANGED <<numPages, batchSize, run_pc, batch>>
  /\ UNCHANGED <<callbackVars, loaderVars, callVars, storageVars, histVars>>

\* getPage / getTextContent of page pageNum, then the call of the callback.
GetPage ==
  /\ ext_pc = "getPage"
  /\ \E ok \in BOOLEAN :
       IF ok
       THEN /\ ext_pc' = "callback"
            /\ cb_pc' = "start"
            /\ cb_page' = [pageNumber |-> pageNum, text |-> PageText(pageNum)]
            /\ UNCHANGED failure
       ELSE /\ ext_pc' = "caught"
            /\ failure' = "ExtractionError"
            /\ UNCHANGED callbackVars
  /\ UNCHANGED <<pageNum, numPages, batchSize, run_pc, batch>>
  /\ UNCHANGED <<loaderVars, callVars, storageVars, histVars>>

\* await onPageExtracted(pageData, metadata), pageNum++ and the loop test.
AwaitCallback ==
  /\ ext_pc = "callback"
  /\ AwaitResumes(cb_pc)
  /\ IF cb_pc = "rejected"
     THEN /\ ext_pc' = "caught"
          /\ UNCHANGED pageNum
     ELSE /\ pageNum' = pageNum + 1
          /\ ext_pc' = IF LoopTest(pageNum + 1, numPages) THEN "getPage" ELSE "returned"
  /\ cb_pc' = IF cb_pc \in {"resolved", "rejected"} THEN "idle" ELSE cb_pc
  /\ UNCHANGED <<cb_page, driverVars, loaderVars, callVars, storageVars, histVars>>

\* extract's catch block.
ExtractCatch ==
  /\ ext_pc = "caught"
  /\ ext_pc' = ExtractorCatch
  /\ UNCHANGED <<pageNum, driverVars, callbackVars, loaderVars, callVars, storageVars, histVars>>

\* ------------------------------------------------------- the page callback
\* if (pageData.pageNumber === 1) await loader.initialize(docMetadata)
CallbackStart ==
  /\ cb_pc = "start"
  /\ IF IsFirstPage(cb_page)
     THEN /\ CallInitialize
          /\ cb_pc' = "awaitInit"
     ELSE /\ cb_pc' = "transform"
          /\ UNCHANGED <<loaderVars, callVars, storageVars, histVars>>
  /\ UNCHANGED <<cb_page, driverVars, extractorVars>>

\* loader.initialize settled.
CallbackInitDone ==
  /\ cb_pc = "awaitInit"
  /\ TakeResult
  /\ cb_pc' = IF ld_result = "ok" THEN "transform" ELSE "rejected"
  /\ failure' = IF ld_result = "ok" THEN failure ELSE ld_result
  /\ UNCHANGED <<cb_page, numPages, batchSize, run_pc, batch>>
  /\ UNCHANGED <<extractorVars, loaderVars, storageVars, histVars>>

\* transformPage, batch.push, and the flush when the batch is full.
Accumulate ==
  /\ cb_pc = "transform"
  /\ LET b == BatchPush(batch, transformPage(cb_page)) IN
       /\ batch' = b
       /\ IF BatchIsFull(b, batchSize)
          THEN /\ CallLoadBatch(b)
               /\ cb_pc' = "awaitLoad"
          ELSE /\ cb_pc' = "resolved"
               /\ UNCHANGED <<loaderVars, callVars, storageVars, histVars>>
  /\ UNCHANGED <<cb_page, numPages, batchSize, run_pc, failure, extractorVars>>

\* loader.loadBatch settled; batch = [] when it did not throw.
CallbackLoadDone ==
  /\ cb_pc = "awaitLoad"
  /\ TakeResult
  /\ IF ld_result = "ok"
     THEN /\ batch' = BatchAfterFlush(batch)
          /\ cb_pc' = "resolved"
          /\ UNCHANGED failure
     ELSE /\ cb_pc' = "rejected"
          /\ failure' = ld_result
          /\ UNCHANGED batch
  /\ UNCHANGED <<cb_page, numPages, batchSize, run_pc, extractorVars>>
  /\ UNCHANGED <<loaderVars, storageVars, histVars>>

\* ----------------------------------------------------------- ETLPipeline.run
\* validatePDFFile, deleteExistingDatabase, Database.create, initializeDb,
\* then the call of extractor.extract.
Setup ==
  /\ run_pc = "start"
  /\ \E ok \in BOOLEAN :
       IF ok
       THEN /\ run_pc' = "extract"
            /\ ext_pc' = "open"
            /\ UNCHANGED failure
       ELSE /\ run_pc' = "failed"
            /\ failure' = "SetupError"
            /\ UNCHANGED ext_pc
  /\ UNCHANGED <<numPages, batchSize, batch, pageNum>>
  /\ UNCHANGED <<callbackVars, loaderVars, callVars, storageVars, histVars>>

\* run's catch, as a throw of extract or of the final flush reaches it: the
\* run has failed (process.exit(1)).
RunCatchResumes == "finalize"
RunCatch == "failed"

\* extract returned: if (batch.length > 0) await loader.loadBatch(batch).
AfterExtract ==
  /\ run_pc = "extract"
  /\ ext_pc = "returned"
  /\ ext_pc' = "idle"
  /\ IF HasRemaining(batch)
     THEN /\ CallLoadBatch(batch)
          /\ run_pc' = "finalFlush"
     ELSE /\ run_pc' = "finalize"
          /\ UNCHANGED <<loaderVars, callVars, storageVars, histVars>>
  /\ UNCHANGED <<numPages, batchSize, batch, failure, pageNum, callbackVars>>

\* extract threw: run's catch.
ExtractThrew ==
  /\ run_pc = "extract"
  /\ ext_pc = "threw"
  /\ ext_pc' = "idle"
  /\ run_pc' = RunCatch
  /\ UNCHANGED <<numPages, batchSize, batch, failure, pageNum>>
  /\ UNCHANGED <<callbackVars, loaderVars, callVars, storageVars, histVars>>

\* the final loadBatch settled; a throw goes to run's catch.
FinalFlushDone ==
  /\ run_pc = "finalFlush"
  /\ TakeResult
  /\ IF ld_result = "ok"
     THEN /\ run_pc' = "finalize"
          /\ UNCHANGED failure
     ELSE /\ run_pc' = RunCatch
          /\ failure' = ld_result
  /\ UNCHANGED <<numPages, batchSize, batch, extractorVars, callbackVars>>
  /\ UNCHANGED <<loaderVars, storageVars, histVars>>

\* loader.finalize()
Finalize ==
  /\ run_pc = "finalize"
  /\ CallFinalize
  /\ run_pc' = "queries"
  /\ UNCHANGED <<numPages, batchSize, batch, failure, extractorVars, callbackVars>>

\* queries.runAllQueries() and db.close(): they read, and may throw.
Queries ==
  /\ run_pc = "queries"
  /\ \E ok \in BOOLEAN :
       IF ok
       THEN /\ run_pc' = "success"
            /\ UNCHANGED failure
       ELSE /\ run_pc' = "failed"
            /\ failure' = "QueryError"
  /\ UNCHANGED <<numPages, batchSize, batch, extractorVars, callbackVars>>
  /\ UNCHANGED <<loaderVars, callVars, storageVars, histVars>>

\* ------------------------------------------- any caller of the Loader's API
\* The batches a caller passes: the first n pages of its document, n >= 0
\* (the Loader never looks at a page's number).
ClientBatches ==
  {[i \in 1..n |-> transformPage([pageNumber |-> i, text |-> PageText(i)])] : n \in 0..MaxClientLen}

ClientInitialize ==
  /\ run_pc = "client"
  /\ ld_pc = "idle"
  /\ Len(loaderCalls) < MaxCalls
  /\ CallInitialize
  /\ UNCHANGED <<driverVars, extractorVars, callbackVars>>

ClientLoadBatch ==
  /\ run_pc = "client"
  /\ ld_pc = "idle"
  /\ Len(loaderCalls) < MaxCalls
  /\ \E pages \in ClientBatches : CallLoadBatch(pages)
  /\ UNCHANGED <<driverVars, extractorVars, callbackVars>>

ClientFinalize ==
  /\ run_pc = "client"
  /\ ld_pc = "idle"
  /\ Len(loaderCalls) < MaxCalls
  /\ CallFinalize
  /\ UNCHANGED <<driverVars, extractorVars, callbackVars>>

ClientAwait ==
  /\ run_pc = "client"
  /\ TakeResult
  /\ UNCHANGED <<driverVars, extractorVars, callbackVars, loaderVars, storageVars, histVars>>

\* ------------------------------------------------------------ specifications
InitCommon ==
  /\ batch = <<>>
  /\ failure = "none"
  /\ ext_pc = "idle"
  /\ pageNum = 0
  /\ cb_pc = "idle"
  /\ cb_page = [pageNumber |-> 0, text |-> <<>>]
  /\ documentId = NoDocument
  /\ insertedCount = 0
  /\ ld_pc = "idle"
  /\ ld_pages = <<>>
  /\ ld_rows = <<>>
  /\ ld_idx = 1
  /\ ld_result = "ok"
  /\ documents = <<>>
  /\ page_content = <<>>
  /\ txOpen = FALSE
  /\ txRows = <<>>
  /\ loaderCalls = <<>>
  /\ sqlLog = <<>>
  /\ reportedTotal = <<>>
  /\ ld_before = <<>>

\* One run of the pipeline over a document of numPages pages.
Init ==
  /\ numPages \in 0..MaxPages
  /\ batchSize \in BatchSizes
  /\ run_pc = "start"
  /\ InitCommon

Next ==
  \/ Setup
  \/ ExtractOpen
  \/ GetPage
  \/ AwaitCallback
  \/ ExtractCatch
  \/ CallbackStart
  \/ CallbackInitDone
  \/ Accumulate
  \/ CallbackLoadDone
  \/ AfterExtract
  \/ ExtractThrew
  \/ FinalFlushDone
  \/ Finalize
  \/ Queries
  \/ InsertDocument
  \/ Begin
  \/ Prepare
  \/ InsertRow
  \/ StmtFinalize
  \/ Commit
  \/ Rollback

Spec == Init /\ [][Next]_vars

\* The steps of a run other than Accumulate: each ends an await or goes on
\* from one.
Awaited ==
  \/ Setup
  \/ ExtractOpen
  \/ GetPage
  \/ AwaitCallback
  \/ ExtractCatch
  \/ CallbackStart
  \/ CallbackInitDone
  \/ CallbackLoadDone
  \/ AfterExtract
  \/ ExtractThrew
  \/ FinalFlushDone
  \/ Finalize
  \/ Queries
  \/ InsertDocument
  \/ Begin
  \/ Prepare
  \/ InsertRow
  \/ StmtFinalize
  \/ Commit
  \/ Rollback

\* What Accumulate does to the callback's position: transformPage and
\* batch.push are synchronous, so the callback goes on to the flush or
\* resolves.
Accumulated == cb_pc = "transform" /\ cb_pc' \in {"awaitLoad", "resolved"}

\* The run of the driver, batches of BATCH_SIZE pages.
FairInit ==
  /\ numPages \in 0..MaxPages
  /\ batchSize = BATCH_SIZE
  /\ run_pc = "start"
  /\ InitCommon

\* The run when every call it awaits returns or fails and synchronous code
\* runs on: a step that can be taken is taken (the run is one sequence of
\* awaits, so no step waits for another process).
FairSpec == FairInit /\ [][Next]_vars /\ WF_vars(Awaited) /\ WF_cb_pc(Accumulated)

\* A caller that makes up to MaxCalls calls to one Loader, in any order,
\* awaiting each.
LoaderInit ==
  /\ numPages = MaxClientLen
  /\ batchSize = BATCH_SIZE
  /\ run_pc = "client"
  /\ InitCommon

LoaderNext ==
  \/ ClientInitialize
  \/ ClientLoadBatch
  \/ ClientFinalize
  \/ ClientAwait
  \/ InsertDocument
  \/ Begin
  \/ Prepare
  \/ InsertRow
  \/ StmtFinalize
  \/ Commit
  \/ Rollback

LoaderSpec == LoaderInit /\ [][LoaderNext]_vars

\* ------------------------------------------------- the Transformer on its own
\* Texts of pages: lines drawn from a dictionary each, one dictionary per
\* concern of the Transformer.
HeadingLines ==
  { <<"R", "A", "M", "P", "S">>,
    <<" ", "R", "A", "M", "P", "S", " ">>,
    <<"A", "D", "A">>,
    <<"6", "0", "3", ".", "4", " ", "H", "O", "O", "K", "S">>,
    <<"H", "O", "O", "K", "S", " ", "6", "0", "3", ".", "4">>,
    <<"A", " ", "T", "A", "B", "L", "E">> }
NumberLines ==
  { <<"6", "0", "3", ".", "4", " ", "H", "o", "o", "k", "s">>,
    <<"7", " ", "G", "e", "n", "e", "r", "a", "l">>,
    <<"1", ".", "2", " ", "3">>,
    <<" ", "2", ".", "1", ".", "1", "\t", "R", "a", "m", "p", "s">> }
LateLines ==
  { <<"6", "0", "3", ".", "4", " ", "H", "o", "o", "k", "s">>,
    <<>> }
LanguageLines ==
  { <<"s", "h", "a", "l", "l">>,
    <<"m", "u", "s", "t", " ", "b", "e", " ", "r", "e", "q", "u", "i", "r", "e", "d">>,
    <<"n", "o", "t", " ", "r", "e", "q", "u", "i", "r", "e", "d">>,
    <<"E", "x", "c", "e", "p", "t", "i", "o", "n", " ", "a", "l", "l", "o", "w", "e", "d">> }
DefinitionLines ==
  { <<"D", "e", "f", "i", "n", "i", "t", "i", "o", "n", "s">>,
    <<"R", "a", "m", "p", ".", " ", "A", " ", "s", "l", "o", "p", "e">>,
    <<"m", "e", "a", "n", "s", " ", "t", "h", "e", " ", "f", "o", "l", "l", "o", "w", "i", "n", "g">>,
    <<"s", "h", "a", "l", "l", " ", "b", "e", " ", "r", "e", "q", "u", "i", "r", "e", "d">> }
KeywordLines ==
  { <<"r", "a", "m", "p">>,
    <<"R", "a", "m", "p", " ", "r", "a", "m", "p", "s">>,
    <<"A", "D", "A", " ", "r", "a", "m", "p">>,
    <<"a", "c", "c", "e", "s", "s", "i", "b", "l", "e", " ", "A", "D", "A">> }
FillerLine == <<"x">>

LinesUpTo(dict, n) == UNION {[1..k -> dict] : k \in 0..n}
Fill(f) == [i \in 1..f |-> FillerLine]

TransformTexts ==
  {joinLines(body) : body \in LinesUpTo(HeadingLines, MaxLines) \cup LinesUpTo(NumberLines, MaxLines)
                             \cup LinesUpTo(LanguageLines, MaxLines) \cup LinesUpTo(KeywordLines, MaxLines)
                             \cup LinesUpTo(DefinitionLines, MaxLines)}
  \cup {joinLines(Fill(f) \o body) : f \in 1..MaxFill, body \in LinesUpTo(LateLines, MaxLines)}

\* A page of text is handed to a Transformer.
TransformInit ==
  /\ numPages = 1
  /\ batchSize = BATCH_SIZE
  /\ run_pc = "transformer"
  /\ cb_page \in {[pageNumber |-> 1, text |-> t] : t \in TransformTexts}
  /\ batch = <<>>
  /\ failure = "none"
  /\ ext_pc = "idle"
  /\ pageNum = 0
  /\ cb_pc = "idle"
  /\ documentId = NoDocument
  /\ insertedCount = 0
  /\ ld_pc = "idle"
  /\ ld_pages = <<>>
  /\ ld_rows = <<>>
  /\ ld_idx = 1
  /\ ld_result = "ok"
  /\ documents = <<>>
  /\ page_content = <<>>
  /\ txOpen = FALSE
  /\ txRows = <<>>
  /\ loaderCalls = <<>>
  /\ sqlLog = <<>>
  /\ reportedTotal = <<>>
  /\ ld_before = <<>>

\* transformer.transformPage(pageData); batch.push(transformed)
TransformPage ==
  /\ run_pc = "transformer"
  /\ cb_pc = "idle"
  /\ batch' = BatchPush(batch, transformPage(cb_page))
  /\ cb_pc' = "transformed"
  /\ UNCHANGED <<cb_page, numPages, batchSize, run_pc, failure>>
  /\ UNCHANGED <<extractorVars, loaderVars, callVars, storageVars, histVars>>

TransformNext == TransformPage

TransformSpec == TransformInit /\ [][TransformNext]_vars

\* ------------------------------------------ one Transformer, page after page
\* The pages a Transformer is given: the same page may come again.
PurityTexts ==
  { <<"r", "a", "m", "p">>,
    <<"A", "D", "A", "\n", "D", "O", "O", "R", "S", " ", "s", "h", "a", "l", "l">>,
    <<>> }
PurityPages == {[pageNumber |-> n, text |-> t] : n \in 1..2, t \in PurityTexts}

PurityInit ==
  /\ numPages = MaxTransforms
  /\ batchSize = BATCH_SIZE
  /\ run_pc = "transformer"
  /\ cb_page \in PurityPages
  /\ batch = <<>>
  /\ failure = "none"
  /\ ext_pc = "idle"
  /\ pageNum = 0
  /\ cb_pc = "idle"
  /\ documentId = NoDocument
  /\ insertedCount = 0
  /\ ld_pc = "idle"
  /\ ld_pages = <<>>
  /\ ld_rows = <<>>
  /\ ld_idx = 1
  /\ ld_result = "ok"
  /\ documents = <<>>
  /\ page_content = <<>>
  /\ txOpen = FALSE
  /\ txRows = <<>>
  /\ loaderCalls = <<>>
  /\ sqlLog = <<>>
  /\ reportedTotal = <<>>
  /\ ld_before = <<>>

\* The callback is entered with the next page; the transformer is the one
\* object made at the start of run.
NextPage ==
  /\ run_pc = "transformer"
  /\ cb_pc = "transformed"
  /\ Len(batch) < numPages
  /\ cb_page' \in PurityPages
  /\ cb_pc' = "idle"
  /\ UNCHANGED <<driverVars, extractorVars, loaderVars, callVars, storageVars, histVars>>

PurityNext ==
  \/ TransformPage
  \/ NextPage

PuritySpec == PurityInit /\ [][PurityNext]_vars

\* ==================================================================== claims
\* The sizes of the batches passed to Loader.loadBatch so far, in call order.
LoadBatchCalls == SelectSeq(loaderCalls, LAMBDA c : c.op = "loadBatch")
LoadBatchSizes == [i \in 1..Len(LoadBatchCalls) |-> Len(LoadBatchCalls[i].pages)]
CeilDiv(n, b) == (n + b - 1) \div b
InOrderFromOne(rows) == \A i \in 1..Len(rows) : rows[i].page_number = i
PastFlushing == run_pc \in {"finalize", "queries", "success"}

\* C1: a run that got through its flushes over numPages pages with batch size
\* batchSize has called loadBatch exactly ceil(numPages / batchSize) times;
\* every call but the last carried batchSize pages, the last carried
\* numPages mod batchSize pages when that is not zero, and no call carried
\* zero pages.
C1_BatchCalls ==
  PastFlushing =>
    LET sizes == LoadBatchSizes
        rest == numPages % batchSize
    IN /\ Len(sizes) = CeilDiv(numPages, batchSize)
       /\ \A i \in 1..Len(sizes) :
            /\ sizes[i] > 0
            /\ sizes[i] = IF i < Len(sizes) \/ rest = 0 THEN batchSize ELSE rest

C1_Witness ==
  /\ run_pc = "success"
  /\ numPages = 23
  /\ batchSize = BATCH_SIZE
  /\ LoadBatchSizes = <<10, 10, 3>>

\* The last loadBatch call has ended by throwing from insertPageContentBatch.
FlushFailed ==
  /\ Len(LoadBatchCalls) > 0
  /\ loaderCalls[Len(loaderCalls)].op = "loadBatch"
  /\ ld_pc \in {"settled", "idle"}
  /\ \E i \in 1..Len(sqlLog) : sqlLog[i].stmt \notin {"ROLLBACK", "INSERT_DOCUMENT"} /\ ~sqlLog[i].ok

\* C2: once a flush has failed (on BEGIN, PREPARE, a row insert, the
\* statement's finalize or COMMIT), no row of its batch is observable, and
\* the observable rows are exactly those of the earlier flushes, all of
\* which committed: the rows that were there when the flush was called.
C2_FailureAtomicity ==
  FlushFailed =>
    LET failed == LoadBatchCalls[Len(LoadBatchCalls)].pages
        before == Len(LoadBatchCalls) - 1
    IN /\ txRows = <<>>
       /\ ~txOpen
       /\ \A i \in 1..Len(failed) : \A j \in 1..Len(VisibleRows) :
            VisibleRows[j].page_number # failed[i]
       /\ page_content = ld_before
       /\ Len(page_content) = before * batchSize
       /\ InOrderFromOne(page_content)

C2_Witness ==
  /\ FlushFailed
  /\ batchSize = BATCH_SIZE
  /\ Len(LoadBatchCalls) = 2
  /\ sqlLog[Len(sqlLog) - 1] = [stmt |-> "COMMIT", ok |-> FALSE]
  /\ sqlLog[Len(sqlLog)] = [stmt |-> "ROLLBACK", ok |-> TRUE]
  /\ RowNumbers(page_content) = <<1, 2, 3, 4, 5, 6, 7, 8, 9, 10>>

\* C3: in every state of a run the observable page rows, committed or in the
\* open transaction, are pages 1..k in arrival order, for some k: a row for
\* page N is never there without the rows of all pages before N.
C3_PrefixVisible ==
  /\ InOrderFromOne(page_content)
  /\ InOrderFromOne(VisibleRows)

C3_Witness ==
  /\ batchSize = BATCH_SIZE
  /\ Len(page_content) = 10
  /\ Len(txRows) = 4
  /\ txRows[4].page_number = 14

\* C4: after a run that completed without error over numPages >= 1 pages there
\* is exactly one document row, with total_pages = numPages, and exactly
\* numPages page rows, each page number 1..numPages on exactly one row.
C4_CompleteLoad ==
  (run_pc = "success" /\ numPages >= 1) =>
    /\ Len(documents) = 1
    /\ documents[1].total_pages = numPages
    /\ Len(page_content) = numPages
    /\ txRows = <<>>
    /\ \A p \in 1..numPages :
         Cardinality({i \in 1..Len(page_content) : page_content[i].page_number = p}) = 1

C4_Witness ==
  /\ run_pc = "success"
  /\ numPages = 23
  /\ batchSize = BATCH_SIZE
  /\ Len(page_content) = 23
  /\ Len(documents) = 1

LastCall == loaderCalls[Len(loaderCalls)]
NoSuccessfulInitialize ==
  \A i \in 1..Len(sqlLog) : ~(sqlLog[i].stmt = "INSERT_DOCUMENT" /\ sqlLog[i].ok)

\* C5: while no initialize has succeeded, a loadBatch call, whatever its
\* argument (the empty batch too), has ended with the not-initialized error,
\* no BEGIN was sent and no transaction is open, and the stored rows and
\* insertedCount are what they were at construction.
C5_NotInitialized ==
  (Len(loaderCalls) > 0 /\ LastCall.op = "loadBatch" /\ NoSuccessfulInitialize) =>
    /\ ld_pc \in {"settled", "idle"}
    /\ ld_result = "NotInitialized"
    /\ \A i \in 1..Len(sqlLog) : sqlLog[i].stmt = "INSERT_DOCUMENT"
    /\ ~txOpen
    /\ txRows = <<>>
    /\ page_content = <<>>
    /\ documents = <<>>
    /\ insertedCount = 0

C5_Witness ==
  /\ Len(loaderCalls) = 3
  /\ loaderCalls[1].op = "initialize"
  /\ loaderCalls[2] = [op |-> "loadBatch", pages |-> <<>>]
  /\ loaderCalls[3] = [op |-> "loadBatch", pages |-> <<1, 2>>]
  /\ NoSuccessfulInitialize
  /\ ld_pc = "idle"
  /\ ld_result = "NotInitialized"

\* A loadBatch call has been made and its caller has not resumed yet.
LoadInFlight ==
  \/ ld_pc \in {"begin", "prepare", "insert", "stmtFinalize", "commit", "rollback"}
  \/ ld_pc = "settled" /\ Len(loaderCalls) > 0 /\ LastCall.op = "loadBatch"

\* C6: the callback and the final flush never both wait for a loadBatch;
\* while a loadBatch is in flight the extractor waits for the callback that
\* called it (or has returned, for the final flush) and no other callback
\* runs; and a callback that has not been awaited to its end is the callback
\* of the page the extractor's loop stands at.
C6_NoOverlap ==
  /\ ~(cb_pc = "awaitLoad" /\ run_pc = "finalFlush")
  /\ LoadInFlight =>
       \/ cb_pc = "awaitLoad" /\ ext_pc = "callback" /\ run_pc = "extract"
       \/ run_pc = "finalFlush" /\ ext_pc = "idle" /\ cb_pc = "idle"
  /\ cb_pc # "idle" => (ext_pc = "callback" /\ cb_page.pageNumber = pageNum)
  /\ ext_pc = "getPage" => (cb_pc = "idle" /\ ld_pc = "idle")

C6_Witness ==
  /\ batchSize = BATCH_SIZE
  /\ ld_pc = "insert"
  /\ ld_idx = 5
  /\ Len(page_content) = 10
  /\ cb_pc = "awaitLoad"
  /\ pageNum = 20

\* C7: the buffer never holds more than batchSize annotations; while it holds
\* batchSize, the last Loader call is the loadBatch of exactly its contents
\* and neither the extractor nor the callback is at a point where a page is
\* accepted; and the callback's flush, when it succeeds, leaves it empty.
C7_BufferBound ==
  /\ [](/\ Len(batch) <= batchSize
        /\ Len(batch) = batchSize =>
             /\ Len(loaderCalls) > 0
             /\ LastCall = [op |-> "loadBatch", pages |-> PageNumbers(batch)]
             /\ ext_pc # "getPage"
             /\ cb_pc \notin {"start", "awaitInit", "transform", "resolved"})
  /\ [][(cb_pc = "awaitLoad" /\ cb_pc' = "resolved") => batch' = <<>>]_vars

C7_Witness ==
  /\ batchSize = BATCH_SIZE
  /\ cb_pc = "resolved"
  /\ cb_page.pageNumber = 20
  /\ batch = <<>>
  /\ Len(page_content) = 20

\* C8: once the extractor has failed (opening the document or producing page
\* pageNum) the run is on its way to, or in, the failed state and never calls
\* the Loader again: every loadBatch call so far was a full batch that
\* committed, the stored rows are pages 1..m*batchSize in order, and the
\* pages after them are still in the buffer, unflushed.
C8_ExtractionFailure ==
  failure = "ExtractionError" =>
    /\ run_pc \in {"extract", "failed"}
    /\ ld_pc = "idle"
    /\ txRows = <<>>
    /\ InOrderFromOne(page_content)
    /\ Len(page_content) = Len(LoadBatchCalls) * batchSize
    /\ \A i \in 1..Len(LoadBatchSizes) : LoadBatchSizes[i] = batchSize
    /\ Len(batch) < batchSize
    /\ pageNum > 0 => Len(page_content) + Len(batch) + 1 = pageNum
    /\ pageNum = 0 => (page_content = <<>> /\ batch = <<>>)

C8_Witness ==
  /\ failure = "ExtractionError"
  /\ run_pc = "failed"
  /\ batchSize = BATCH_SIZE
  /\ pageNum = 14
  /\ Len(batch) = 3
  /\ Len(page_content) = 10

\* INSERT INTO documents, or a statement of a batch other than ROLLBACK, failed.
StorageFailed ==
  \E i \in 1..Len(sqlLog) : sqlLog[i].stmt # "ROLLBACK" /\ ~sqlLog[i].ok

\* C9: once document creation or a statement of a flush has failed, the run
\* never gets past its flushes and, when nothing more can happen, is in the
\* failed state; from then on no step extracts or accumulates a page, calls
\* the Loader, changes the committed rows or sends any statement but the
\* failed transaction's ROLLBACK.
C9_StorageFailureFatal ==
  /\ [](StorageFailed =>
          /\ run_pc \in {"extract", "finalFlush", "failed"}
          /\ (~ENABLED Next) => (run_pc = "failed" /\ failure \in {"DocumentInsertionFailed", "BatchInsertionFailed"}))
  /\ [][StorageFailed =>
          /\ pageNum' = pageNum
          /\ cb_page' = cb_page
          /\ batch' = batch
          /\ loaderCalls' = loaderCalls
          /\ documents' = documents
          /\ page_content' = page_content
          /\ \/ sqlLog' = sqlLog
             \/ \E ok \in BOOLEAN : sqlLog' = Log("ROLLBACK", ok)]_vars

C9_Witness ==
  /\ StorageFailed
  /\ run_pc = "failed"
  /\ failure = "BatchInsertionFailed"
  /\ batchSize = BATCH_SIZE
  /\ Len(LoadBatchCalls) = 2
  /\ pageNum = 20
  /\ Len(batch) = 10

FinalizeCalled == \E i \in 1..Len(loaderCalls) : loaderCalls[i].op = "finalize"

\* C10: once finalize has been called, no step of a later loadBatch call
\* adds a page row or changes insertedCount, the total finalize reports.
C10_FinalizedAcceptsNothing ==
  [][(FinalizeCalled /\ LastCall.op = "loadBatch") =>
       (page_content' = page_content /\ insertedCount' = insertedCount)]_vars

InitializeCalls == SelectSeq(loaderCalls, LAMBDA c : c.op = "initialize")

\* C11: in a run the Document row is created at most once, by the first
\* Loader call, made in the callback of page 1; no page row is observable,
\* buffered or handed to the Loader before it exists; every observable page
\* row carries its id, which is Loader.documentId; and a run over at least
\* one page that got through its flushes created exactly one.
C11_DocumentOnce ==
  /\ Len(documents) <= 1
  /\ Len(InitializeCalls) <= 1
  /\ Len(InitializeCalls) = 1 => (loaderCalls[1].op = "initialize" /\ pageNum >= 1)
  /\ (cb_pc = "awaitInit") => (pageNum = 1 /\ batch = <<>> /\ VisibleRows = <<>>)
  /\ (batch # <<>> \/ Len(LoadBatchCalls) > 0 \/ VisibleRows # <<>>) =>
       /\ Len(documents) = 1
       /\ documentId = documents[1].id
       /\ \A i \in 1..Len(VisibleRows) : VisibleRows[i].document_id = documents[1].id
  /\ (PastFlushing /\ numPages >= 1) => Len(documents) = 1

C11_Witness ==
  /\ run_pc = "success"
  /\ numPages = 23
  /\ batchSize = BATCH_SIZE
  /\ Len(documents) = 1
  /\ Len(page_content) = 23
  /\ \A i \in 1..23 : page_content[i].document_id = 1

\* The accumulator/loader state of section 4.2, read off the run's state.
Phase ==
  IF run_pc = "failed" \/ failure # "none" THEN "Failed"
  ELSE IF FinalizeCalled THEN "Finalized"
  ELSE IF LoadInFlight THEN "Flushing"
  ELSE IF documentId = NoDocument THEN "Uninitialized"
  ELSE IF batch = <<>> /\ Len(LoadBatchCalls) = 0 THEN "Initialized"
  ELSE "Accumulating"

\* The moves of Uninitialized -> Initialized -> Accumulating ->
\* (Flushing -> Accumulating)* -> Finalized; a run over no page goes from
\* Uninitialized to Finalized, and an error ends the run from any state.
\* The step that appends the first page when that fills the buffer (batch
\* size 1) appends and calls loadBatch at once: Initialized to Flushing.
PhaseMove(a, b) ==
  \/ a = b
  \/ b = "Failed"
  \/ <<a, b>> \in { <<"Uninitialized", "Initialized">>,
                    <<"Uninitialized", "Finalized">>,
                    <<"Initialized", "Accumulating">>,
                    <<"Initialized", "Flushing">>,
                    <<"Accumulating", "Flushing">>,
                    <<"Flushing", "Accumulating">>,
                    <<"Accumulating", "Finalized">> }

ExpectedRows(n) ==
  LET rows == PageContents(1, [p \in 1..n |-> transformPage([pageNumber |-> p, text |-> PageText(p)])])
  IN [p \in 1..n |-> StoredRow(rows[p])]

\* C13: whatever the batch size (1, 2, the driver's 10; smaller than, equal
\* to or larger than the document), a run that completed without error
\* leaves the same stored rows in the same order, those of pages
\* 1..numPages, and the same single document row.
C13_BatchSizeIrrelevant ==
  run_pc = "success" =>
    /\ page_content = ExpectedRows(numPages)
    /\ txRows = <<>>
    /\ documents = IF numPages = 0 THEN <<>> ELSE <<[id |-> 1, total_pages |-> numPages]>>

C13_Witness ==
  /\ run_pc = "success"
  /\ batchSize = 1
  /\ numPages = 7
  /\ Len(LoadBatchCalls) = 7
  /\ page_content = ExpectedRows(7)

C13_WitnessLarge ==
  /\ run_pc = "success"
  /\ batchSize = BATCH_SIZE
  /\ numPages = 7
  /\ Len(LoadBatchCalls) = 1
  /\ page_content = ExpectedRows(7)

RowsOfDocument(id) == {i \in 1..Len(page_content) : page_content[i].document_id = id}

\* C14: between Loader operations insertedCount is the number of committed
\* page rows of the current document (those committed since the last
\* successful initialize); the step that settles a loadBatch of k pages
\* raises it by k when the call succeeded and leaves it unchanged when it
\* failed; and the total finalize has just logged is that number of rows.
C14_InsertedCount ==
  /\ [](ld_pc \in {"idle", "settled"} =>
          /\ insertedCount = Cardinality(RowsOfDocument(documentId))
          /\ (Len(loaderCalls) > 0 /\ LastCall.op = "finalize") =>
               reportedTotal[Len(reportedTotal)] = Cardinality(RowsOfDocument(documentId)))
  /\ [][(ld_pc \in {"begin", "prepare", "insert", "stmtFinalize", "commit", "rollback"}
          /\ ld_pc' = "settled") =>
            insertedCount' = insertedCount + (IF ld_result' = "ok" THEN Len(ld_pages) ELSE 0)]_vars

C14_Witness ==
  /\ Len(loaderCalls) = 3
  /\ loaderCalls[1].op = "initialize"
  /\ loaderCalls[2] = [op |-> "loadBatch", pages |-> <<1, 2>>]
  /\ loaderCalls[3].op = "finalize"
  /\ reportedTotal = <<2>>
  /\ insertedCount = 2
  /\ Len(page_content) = 2

\* ------------------------------------------------------------ the Transformer
\* A page has been transformed: cb_page went in, batch[1] came out.
Transformed == run_pc = "transformer" /\ cb_pc = "transformed"
Distinct(a) == \A i, j \in 1..Len(a) : a[i] = a[j] => i = j
Elements(a) == {a[i] : i \in 1..Len(a)}
\* The trimmed lines of a text, and the place where one first occurs.
TrimmedLines(text) == LET lines == splitLines(text) IN [i \in 1..Len(lines) |-> trim(lines[i])]
FirstAt(a, x) == MinOf({i \in 1..Len(a) : a[i] = x})
\* A trimmed line that is long enough, not excluded, all upper case and holds a letter.
Qualifies(t) ==
  /\ Len(t) >= 3
  /\ ~Excluded(t)
  /\ t = toUpperCase(t)
  /\ \E i \in 1..Len(t) : t[i] \in UpperSet
HasSectionCode(t) ==
  \E i, j, k \in 1..Len(t) :
    /\ i < j /\ j < k /\ t[j] = "."
    /\ \A m \in i..(j - 1) : t[m] \in DigitSet
    /\ \A m \in (j + 1)..k : t[m] \in DigitSet
\* The token TABLE stands in the text as a word of its own.
HasTableToken(text) ==
  \E i \in 1..Len(text) :
    /\ i + 4 <= Len(text)
    /\ SubSeq(text, i, i + 4) = <<"T", "A", "B", "L", "E">>
    /\ (i = 1 \/ text[i - 1] \notin WordSet)
    /\ (i + 4 = Len(text) \/ text[i + 5] \notin WordSet)

\* C15: the keyword count of a transformed page is the length of its keyword
\* list, no keyword is listed twice however often it occurs in the text, and in
\* the row stored for the page keyword_count is the length of the list that
\* keywords parses to.
C15_KeywordCount ==
  Transformed =>
    LET page == batch[1]
        row == StoredRow(PageContents(1, batch)[1])
    IN /\ page.keywordCount = Len(page.keywords)
       /\ Distinct(page.keywords)
       /\ row.keyword_count = Len(JSONParse(row.keywords))
       /\ JSONParse(row.keywords) = page.keywords

\* A page on which two of the keywords found occur more often than once each.
C15_Witness ==
  /\ Transformed
  /\ Len(batch[1].keywords) = 2
  /\ batch[1].keywordCount = 2
  /\ KeywordOccurrences(batch[1].keywords, batch[1].rawText) >= 4

\* C16: the section headings of a page hold no heading twice (compared with
\* case), each is a trimmed line of the page that qualifies as a heading (all
\* of them when the page holds no TABLE token), and they stand in the order
\* in which they first occur among the lines.
C16_HeadingsDistinctInOrder ==
  Transformed =>
    LET h == batch[1].sectionHeadings
        lines == TrimmedLines(batch[1].rawText)
    IN /\ Distinct(h)
       /\ Elements(h) \subseteq {lines[i] : i \in {j \in 1..Len(lines) : Qualifies(lines[j])}}
       /\ ~HasTableToken(batch[1].rawText) =>
            \A i \in 1..Len(lines) : Qualifies(lines[i]) => lines[i] \in Elements(h)
       /\ \A k, l \in 1..Len(h) : k < l => FirstAt(lines, h[k]) < FirstAt(lines, h[l])

\* A page where a heading comes back after another one: three heading lines,
\* two headings.
C16_Witness ==
  /\ Transformed
  /\ ~HasTableToken(batch[1].rawText)
  /\ LET lines == TrimmedLines(batch[1].rawText)
     IN /\ Len(lines) = 3
        /\ \A i \in 1..3 : Qualifies(lines[i])
        /\ lines[1] = lines[3]
        /\ batch[1].sectionHeadings = <<lines[1], lines[2]>>

\* The text without the lines that hold a dotted numeric code.
WithoutCodeLines(text) ==
  joinLines(SelectSeq(splitLines(text), LAMBDA line : ~HasSectionCode(line)))

\* C17: no section heading holds a dotted numeric code (digits, a dot, digits),
\* upper case or not, and the lines that hold one change nothing for the other
\* lines: the headings are those of the page without these lines.
C17_CodeLinesSkipped ==
  Transformed =>
    LET h == batch[1].sectionHeadings
        text == batch[1].rawText
    IN /\ \A k \in 1..Len(h) : ~HasSectionCode(h[k])
       /\ HasTableToken(WithoutCodeLines(text)) = HasTableToken(text)
            => h = extractSectionHeadings(WithoutCodeLines(text))

\* A page whose first line is upper case with a dotted code, followed by a
\* line that becomes the heading.
C17_Witness ==
  /\ Transformed
  /\ LET lines == TrimmedLines(batch[1].rawText)
     IN /\ Len(lines) >= 2
        /\ HasSectionCode(lines[1])
        /\ lines[1] = toUpperCase(lines[1])
        /\ \E i \in 1..Len(lines[1]) : lines[1][i] \in UpperSet
        /\ Qualifies(lines[2])
        /\ batch[1].sectionHeadings = <<lines[2]>>

\* C18: when the text of the page holds the token TABLE as a whole word (upper
\* case), the page has at most one section heading, and it is the first line
\* that qualifies as a heading.
C18_TableOneHeading ==
  (Transformed /\ HasTableToken(batch[1].rawText)) =>
    LET h == batch[1].sectionHeadings
        lines == TrimmedLines(batch[1].rawText)
        q == {i \in 1..Len(lines) : Qualifies(lines[i])}
    IN /\ Len(h) <= 1
       /\ h = IF q = {} THEN <<>> ELSE <<lines[MinOf(q)]>>

\* A page with the token TABLE and two different lines that qualify.
C18_Witness ==
  /\ Transformed
  /\ HasTableToken(batch[1].rawText)
  /\ LET lines == TrimmedLines(batch[1].rawText)
     IN \E i, j \in 1..Len(lines) :
          /\ i < j /\ Qualifies(lines[i]) /\ Qualifies(lines[j]) /\ lines[i] # lines[j]
          /\ batch[1].sectionHeadings = <<lines[i]>>

\* The lines of a text that are not blank, trimmed.
NonBlankLines(text) == SelectSeq(TrimmedLines(text), LAMBDA t : Len(t) > 0)
\* The longest prefix of digits and dots of a line.
NumericPrefix(t) ==
  SubSeq(t, 1, MaxOf({k \in 0..Len(t) : \A i \in 1..k : t[i] \in DigitSet \cup {"."}}))
\* digits, then one or more groups of a dot and digits
IsDottedNumber(n) ==
  /\ Len(n) >= 3
  /\ n[1] \in DigitSet /\ n[Len(n)] \in DigitSet
  /\ \E i \in 1..Len(n) : n[i] = "."
  /\ \A i \in 1..Len(n) : n[i] \in DigitSet \cup {"."}
  /\ \A i \in 1..(Len(n) - 1) : ~(n[i] = "." /\ n[i + 1] = ".")
\* The line starts with a dotted number, white space and a letter.
StartsNumbered(t) ==
  LET n == NumericPrefix(t)
  IN /\ IsDottedNumber(n)
     /\ \E k \in (Len(n) + 2)..Len(t) :
          /\ \A i \in (Len(n) + 1)..(k - 1) : t[i] \in SpaceSet
          /\ t[k] \in LowerSet \cup UpperSet

\* C19: the section number of a page is the dotted number at the start of the
\* first line, among the first ten lines that are not blank, that starts with
\* a dotted number followed by white space and a letter; a line beyond the
\* tenth is not looked at, and there is no section number when none matches.
C19_SectionNumber ==
  Transformed =>
    LET lines == NonBlankLines(batch[1].rawText)
        hits == {i \in 1..Len(lines) : i <= 10 /\ StartsNumbered(lines[i])}
    IN batch[1].sectionNumber =
         IF hits = {} THEN <<>> ELSE <<NumericPrefix(lines[MinOf(hits)])>>

\* A page whose only numbered line is the eleventh line that is not blank,
\* after a blank line: it has no section number.
C19_Witness ==
  /\ Transformed
  /\ batch[1].sectionNumber = <<>>
  /\ LET lines == NonBlankLines(batch[1].rawText)
     IN /\ Len(lines) = 11
        /\ StartsNumbered(lines[11])
        /\ Len(splitLines(batch[1].rawText)) > 11

\* A page whose tenth line that is not blank, after a blank line, gives the
\* section number.
C19_WitnessTenth ==
  /\ Transformed
  /\ batch[1].sectionNumber # <<>>
  /\ LET lines == NonBlankLines(batch[1].rawText)
     IN /\ Len(lines) = 10
        /\ StartsNumbered(lines[10])
        /\ Len(splitLines(batch[1].rawText)) > 10

\* C20: the content type of a page holds exception exactly when its count of
\* exception language is at least two, and requirement exactly when its count
\* of mandatory language is at least two, each whatever the other count is.
C20_LanguageThresholds ==
  Transformed =>
    LET page == batch[1]
    IN /\ Exception \in Elements(page.contentType) <=> page.exceptionLanguageCount >= 2
       /\ Requirement \in Elements(page.contentType) <=> page.mandatoryLanguageCount >= 2

\* A page with exactly two expressions of exception and one of obligation:
\* exception without requirement.
C20_Witness ==
  /\ Transformed
  /\ batch[1].exceptionLanguageCount = 2
  /\ batch[1].mandatoryLanguageCount = 1
  /\ batch[1].contentType = <<Exception>>

\* A page with exactly two expressions of obligation and one of exception.
C20_WitnessRequirement ==
  /\ Transformed
  /\ batch[1].mandatoryLanguageCount = 2
  /\ batch[1].exceptionLanguageCount = 1
  /\ batch[1].contentType = <<Requirement>>

\* One of the three signs of a definition section: the word definition(s), the
\* word means followed by following on its line, more than three lines that
\* start with a capitalised term and a full stop.
DefinitionApplies(text) ==
  \/ RegExpTest(definitionsPattern, text)
  \/ RegExpTest(meansFollowingPattern, text)
  \/ Len(SelectSeq(splitLines(text), LAMBDA line : RegExpTest(termLinePattern, line))) > 3

\* C21: the content type of a page is never empty and holds no tag twice;
\* normal is there exactly when none of definition, exception (count at least
\* two) and requirement (count at least two) applies, and then alone.
C21_NormalExclusive ==
  Transformed =>
    LET page == batch[1]
        tags == Elements(page.contentType)
        other == \/ DefinitionApplies(page.rawText)
                 \/ page.exceptionLanguageCount >= 2
                 \/ page.mandatoryLanguageCount >= 2
    IN /\ Len(page.contentType) >= 1
       /\ Distinct(page.contentType)
       /\ tags \subseteq {Definition, Exception, Requirement, Normal}
       /\ Normal \in tags <=> ~other
       /\ Normal \in tags => page.contentType = <<Normal>>
       /\ Definition \in tags <=> DefinitionApplies(page.rawText)

\* A page that is a definition and a requirement at once, without normal.
C21_Witness ==
  /\ Transformed
  /\ batch[1].contentType = <<Definition, Requirement>>
  /\ batch[1].exceptionLanguageCount = 0

\* A page with one expression of obligation and one of exception, which is
\* normal.
C21_WitnessNormal ==
  /\ Transformed
  /\ batch[1].contentType = <<Normal>>
  /\ batch[1].exceptionLanguageCount = 1
  /\ batch[1].mandatoryLanguageCount = 1

C23_EmptyText ==
  Transformed =>
    LET page == batch[1]
    IN /\ page.pageNumber = cb_page.pageNumber
       /\ page.rawText = cb_page.text
       /\ Len(page.sectionNumber) <= 1
       /\ Len(page.contentType) >= 1
       /\ page.keywordCount \in Nat
       /\ page.mandatoryLanguageCount \in Nat
       /\ page.exceptionLanguageCount \in Nat
       /\ page.hasFigure \in BOOLEAN
       /\ cb_page.text = <<>> =>
            page = [pageNumber |-> cb_page.pageNumber,
                    rawText |-> <<>>,
                    sectionHeadings |-> <<>>,
                    sectionNumber |-> <<>>,
                    contentType |-> <<Normal>>,
                    keywordCount |-> 0,
                    keywords |-> <<>>,
                    hasFigure |-> FALSE,
                    mandatoryLanguageCount |-> 0,
                    exceptionLanguageCount |-> 0]

\* The page of empty text has been transformed.
C23_Witness ==
  /\ Transformed
  /\ cb_page.text = <<>>
  /\ batch[1].pageNumber = 1
  /\ batch[1].keywordCount = 0

\* The trimmed line is at least three characters long, equals its upper-cased
\* form and holds a letter.
LooksLikeHeading(t) ==
  /\ Len(t) >= 3
  /\ t = toUpperCase(t)
  /\ \E i \in 1..Len(t) : t[i] \in LowerSet \cup UpperSet

\* C24 as stated: a line that matches no exclusion pattern is among the
\* headings exactly when it is shorter than the whole text of the page, has
\* at least three trimmed characters, equals its upper-cased form and holds a
\* letter.
C24_HeadingIffShorter ==
  Transformed =>
    LET text == batch[1].rawText
        lines == TrimmedLines(text)
    IN \A i \in 1..Len(lines) :
         ~Excluded(lines[i]) =>
           (lines[i] \in Elements(batch[1].sectionHeadings)
              <=> (Len(lines[i]) < Len(text) /\ LooksLikeHeading(lines[i])))

\* C24 amended: a line that matches no exclusion pattern is among the headings
\* exactly when it has at least three trimmed characters, equals its
\* upper-cased form, holds a letter and, on a page with the token TABLE,
\* equals the first such line of the page; it may be the whole text.
C24_HeadingIff ==
  Transformed =>
    LET text == batch[1].rawText
        lines == TrimmedLines(text)
        first == {i \in 1..Len(lines) :
                    /\ ~Excluded(lines[i]) /\ LooksLikeHeading(lines[i])
                    /\ \A j \in 1..(i - 1) : Excluded(lines[j]) \/ ~LooksLikeHeading(lines[j])}
    IN \A i \in 1..Len(lines) :
         ~Excluded(lines[i]) =>
           (lines[i] \in Elements(batch[1].sectionHeadings)
              <=> /\ LooksLikeHeading(lines[i])
                  /\ HasTableToken(text) => \E k \in first : lines[k] = lines[i])

\* A page whose whole text is one heading of three characters.
C24_Witness ==
  /\ Transformed
  /\ Len(batch[1].rawText) = 3
  /\ batch[1].sectionHeadings = <<batch[1].rawText>>

\* The places of a text where the word or phrase w stands as a whole, in any
\* case (w starts and ends with a word character).
WordPlaces(w, text) ==
  {i \in 1..(Len(text) - Len(w) + 1) :
     /\ toLowerCase(SubSeq(text, i, i + Len(w) - 1)) = toLowerCase(w)
     /\ (i = 1 \/ text[i - 1] \notin WordSet)
     /\ (i + Len(w) - 1 = Len(text) \/ text[i + Len(w)] \notin WordSet)}
\* The vocabulary terms that occur in a text, and the place of a term in the
\* vocabulary.
TermsFound(text) ==
  {accessibilityKeywords[k] : k \in {j \in 1..Len(accessibilityKeywords) :
                                       WordPlaces(accessibilityKeywords[j], text) # {}}}
VocabularyIndex(term) == MinOf({k \in 1..Len(accessibilityKeywords) : accessibilityKeywords[k] = term})

\* C25 as stated: the keywords of a page are the vocabulary terms that occur
\* in its text as whole words in any case, each once and as the vocabulary
\* spells it, in the order in which they first occur in the text.
C25_FirstOccurrenceOrder ==
  Transformed =>
    LET kw == batch[1].keywords
        text == batch[1].rawText
    IN /\ Distinct(kw)
       /\ Elements(kw) = TermsFound(text)
       /\ \A k, l \in 1..Len(kw) :
            k < l => MinOf(WordPlaces(kw[k], text)) < MinOf(WordPlaces(kw[l], text))

\* C25 amended: the keywords of a page are the vocabulary terms that occur in
\* its text as whole words in any case, each once and as the vocabulary spells
\* it, in the order of the vocabulary.
C25_VocabularyOrder ==
  Transformed =>
    LET kw == batch[1].keywords
        text == batch[1].rawText
    IN /\ Distinct(kw)
       /\ Elements(kw) = TermsFound(text)
       /\ \A k, l \in 1..Len(kw) : k < l => VocabularyIndex(kw[k]) < VocabularyIndex(kw[l])

\* A page where ramp comes before ADA, in another case than the vocabulary's:
\* the keywords are ADA, then ramp.
C25_Witness ==
  /\ Transformed
  /\ batch[1].keywords = <<accessibilityKeywords[3], accessibilityKeywords[6]>>
  /\ LET text == batch[1].rawText
     IN /\ MinOf(WordPlaces(accessibilityKeywords[6], text)) < MinOf(WordPlaces(accessibilityKeywords[3], text))
        /\ text[MinOf(WordPlaces(accessibilityKeywords[6], text))] = "R"

\* The number of places where one of the terms stands in the text, each term
\* counted on its own.
TermCount(terms, text) ==
  LET n[i \in 0..Len(terms)] ==
        IF i = 0 THEN 0 ELSE n[i - 1] + Cardinality(WordPlaces(terms[i], text))
  IN n[Len(terms)]
MandatoryTerms ==
  << <<"s", "h", "a", "l", "l">>, <<"m", "u", "s", "t">>,
     <<"r", "e", "q", "u", "i", "r", "e", "d">>,
     <<"m", "a", "n", "d", "a", "t", "o", "r", "y">> >>
ExceptionTerms ==
  << <<"e", "x", "c", "e", "p", "t", "i", "o", "n">>,
     <<"p", "e", "r", "m", "i", "t", "t", "e", "d">>,
     <<"a", "l", "l", "o", "w", "e", "d">>,
     <<"n", "o", "t", " ", "r", "e", "q", "u", "i", "r", "e", "d">> >>

\* C26: the count of mandatory language of a page is the sum of the numbers
\* of whole-word occurrences, in any case, of shall, must, required and
\* mandatory, and the count of exception language the same sum for exception,
\* permitted, allowed and the phrase not required; each term is counted over
\* the whole text on its own, so every "not required" counts in both.
C26_LanguageCounts ==
  Transformed =>
    LET page == batch[1]
    IN /\ page.mandatoryLanguageCount = TermCount(MandatoryTerms, page.rawText)
       /\ page.exceptionLanguageCount = TermCount(ExceptionTerms, page.rawText)
       /\ page.mandatoryLanguageCount >= Cardinality(WordPlaces(ExceptionTerms[4], page.rawText))

\* A page that says "not required" twice and nothing else of the kind: two
\* of each count.
C26_Witness ==
  /\ Transformed
  /\ Cardinality(WordPlaces(ExceptionTerms[4], batch[1].rawText)) = 2
  /\ batch[1].exceptionLanguageCount = 2
  /\ batch[1].mandatoryLanguageCount = 2

\* The page callback has completed and the extractor has not gone on yet.
CallbackCompleted == cb_pc = "resolved"

\* C27: while no operation has failed, whenever a page callback has
\* completed, the pages committed to storage followed by the pages of the
\* buffer are the pages classified so far, 1..pageNum, each once and in
\* order, each as transformPage gave it; no flush is under way and no row is
\* left uncommitted.
C27_NothingLost ==
  (failure = "none" /\ CallbackCompleted) =>
    /\ RowNumbers(page_content) \o PageNumbers(batch) = [i \in 1..pageNum |-> i]
    /\ LET last == transformPage(cb_page)
       IN IF batch # <<>>
          THEN batch[Len(batch)] = last
          ELSE page_content[Len(page_content)] = StoredRow(PageContents(documentId, <<last>>)[1])
    /\ cb_page.pageNumber = pageNum
    /\ ld_pc = "idle"
    /\ txRows = <<>>
    /\ ~txOpen

\* The callback of page 23 has completed with ten-page batches: two batches
\* committed, three pages in the buffer.
C27_Witness ==
  /\ failure = "none"
  /\ CallbackCompleted
  /\ batchSize = BATCH_SIZE
  /\ pageNum = 23
  /\ Len(page_content) = 20
  /\ Len(batch) = 3

\* A call of Database.insertPageContentBatch with a batch that is not empty
\* has returned or thrown.
DatabaseCallEnded == ld_pc = "settled" /\ ld_rows # <<>>

\* The statements of the latest call of insertPageContentBatch: the log from
\* its BEGIN TRANSACTION on.
CallLog ==
  LET begins == {i \in 1..Len(sqlLog) : sqlLog[i].stmt = "BEGIN"}
  IN SubSeq(sqlLog, MaxOf(begins), Len(sqlLog))
Sent(log, stmt) == {i \in 1..Len(log) : log[i].stmt = stmt}
Succeeded(log, stmt) == {i \in 1..Len(log) : log[i].stmt = stmt /\ log[i].ok}
RowInsertsSucceeded(log) == Cardinality(Succeeded(log, "INSERT")) = Len(ld_rows)
TrySucceeded(log) ==
  /\ Succeeded(log, "PREPARE") # {}
  /\ RowInsertsSucceeded(log)
  /\ Succeeded(log, "FINALIZE") # {}

\* What holds of every ended call whatever made it roll back: no transaction
\* is open, a failed BEGIN is followed by no statement, and a transaction
\* that began is ended by one statement, the call's last: COMMIT when it
\* succeeds, otherwise one ROLLBACK (also after a COMMIT that failed).
EndedOnce(log) ==
  /\ ~txOpen
  /\ txRows = <<>>
  /\ log[1].stmt = "BEGIN"
  /\ Cardinality(Sent(log, "BEGIN")) = 1
  /\ ~log[1].ok => Len(log) = 1
  /\ log[1].ok =>
       /\ Cardinality(Sent(log, "COMMIT")) <= 1
       /\ Cardinality(Sent(log, "ROLLBACK")) = (IF Succeeded(log, "COMMIT") # {} THEN 0 ELSE 1)
       /\ log[Len(log)].stmt = (IF Succeeded(log, "COMMIT") # {} THEN "COMMIT" ELSE "ROLLBACK")
       /\ ~RowInsertsSucceeded(log) => Sent(log, "COMMIT") = {}

\* C28 as claimed: COMMIT is sent exactly when all row inserts succeeded.
C28_CommitWhenRowsInserted ==
  DatabaseCallEnded =>
    /\ EndedOnce(CallLog)
    /\ CallLog[1].ok => (Sent(CallLog, "COMMIT") # {} <=> RowInsertsSucceeded(CallLog))

\* C28: every call of insertPageContentBatch that begins a transaction ends
\* it exactly once before it returns or throws and leaves none open: by
\* COMMIT, sent exactly when preparing the statement, every row insert and
\* finalizing the statement succeeded, otherwise by one ROLLBACK, sent also
\* when COMMIT itself fails; a failed BEGIN is followed by no ROLLBACK; and a
\* call that ends at once, as with an empty batch, sends no statement and
\* begins no transaction.
C28_TransactionEndedOnce ==
  /\ [](DatabaseCallEnded =>
          /\ EndedOnce(CallLog)
          /\ CallLog[1].ok => (Sent(CallLog, "COMMIT") # {} <=> TrySucceeded(CallLog)))
  /\ [][(ld_pc = "idle" /\ ld_pc' = "settled") =>
          (sqlLog' = sqlLog /\ txOpen' = txOpen /\ ~txOpen)]_vars

\* Both rows of a batch were inserted, finalizing the statement failed, and
\* the call rolled the transaction back.
C28_Witness ==
  /\ DatabaseCallEnded
  /\ Len(ld_rows) = 2
  /\ CallLog[1].ok
  /\ RowInsertsSucceeded(CallLog)
  /\ Sent(CallLog, "FINALIZE") # {}
  /\ Succeeded(CallLog, "FINALIZE") = {}
  /\ Sent(CallLog, "COMMIT") = {}
  /\ Succeeded(CallLog, "ROLLBACK") # {}
  /\ ~txOpen

\* The extractor has returned from a document of no page.
NoPageDelivered ==
  /\ numPages = 0
  /\ \/ run_pc = "extract" /\ ext_pc = "returned"
     \/ run_pc \in {"finalize", "queries", "success"}
     \/ run_pc = "failed" /\ failure = "QueryError"

\* C29: a run whose extractor delivers no page never initializes the
\* Loader: there is no document row and no page row, no loadBatch call, no
\* statement and no transaction; nothing of the Loader or the storage fails;
\* finalize is the Loader's only call and reports 0 pages; and the run, whose
\* demonstration queries then succeed, stops as a success.
C29_NoPageNoLoader ==
  /\ numPages = 0 =>
       /\ pageNum <= 1
       /\ cb_pc = "idle"
       /\ batch = <<>>
       /\ documentId = NoDocument
       /\ documents = <<>>
       /\ page_content = <<>>
       /\ sqlLog = <<>>
       /\ ~txOpen
       /\ txRows = <<>>
       /\ ld_pc = "idle"
       /\ InitializeCalls = <<>>
       /\ LoadBatchCalls = <<>>
       /\ failure \in {"none", "SetupError", "ExtractionError", "QueryError"}
  /\ NoPageDelivered =>
       /\ run_pc = "extract" => (loaderCalls = <<>> /\ reportedTotal = <<>>)
       /\ run_pc = "finalize" => (loaderCalls = <<>> /\ reportedTotal = <<>>)
       /\ run_pc \in {"queries", "success", "failed"} =>
            /\ loaderCalls = <<[op |-> "finalize", pages |-> <<>>]>>
            /\ reportedTotal = <<0>>
       /\ (failure = "none" /\ ~ENABLED Next) => run_pc = "success"

\* The run over a document of no page has stopped as a success, finalize
\* having reported 0 pages.
C29_Witness ==
  /\ NoPageDelivered
  /\ run_pc = "success"
  /\ failure = "none"
  /\ reportedTotal = <<0>>
  /\ loaderCalls = <<[op |-> "finalize", pages |-> <<>>]>>
  /\ documents = <<>>
  /\ sqlLog = <<>>

\* The pages of the buffer are the last pages of storage: each was committed.
BufferCommitted ==
  /\ Len(batch) <= Len(page_content)
  /\ PageNumbers(batch) =
       SubSeq(RowNumbers(page_content), Len(page_content) - Len(batch) + 1, Len(page_content))

====
